---- MODULE Spec2Model ----
(***************************************************************************)
(* FlowDrafter deterministic design engine: head placement, zone           *)
(* assignment, pipe routing and material calculation.                      *)
(*                                                                         *)
(* Units.  Lengths and coordinates are integers counting quarter feet      *)
(* (Ft(n) is n feet), so that spacing/2, W/2, L/4 and 3L/4 are exact for   *)
(* whole-foot inputs.  Flows are integers counting fortieths of a GPM      *)
(* (Tenths(n) is n/10 GPM), so that every catalog flow scaled by 90/360,   *)
(* 180/360 or 360/360 is exact.  Pipe and valve sizes count hundredths of  *)
(* an inch.  Ids `H-3`, `Z-2`, `P-7` are records [p, n]; the empty string  *)
(* is NoId.  Floating-point rounding error is modelled where a result     *)
(* depends on it (see Dbl): in the sum of a zone's head flows that         *)
(* createZone rounds to tenths and in the sum of the zones' totalGPM that  *)
(* routePipes compares with the mainline and master-valve thresholds.      *)
(* Everywhere else the arithmetic is exact.                                *)
(***************************************************************************)
EXTENDS Integers, Sequences, FiniteSets, TLC

VARIABLES headCounter, pipeCounter, op, arg, ret, earlier

vars == <<headCounter, pipeCounter, op, arg, ret, earlier>>

----------------------------------------------------------------------------
(* Bounds of the explored inputs *)

MaxPipelineZones == 1

MaxZones == 2

MaxHeads == 3

MaxLeftover == 2

----------------------------------------------------------------------------
(* Arithmetic helpers *)

Ft(n) == 4 * n

Tenths(n) == 4 * n

Abs(a) == IF a < 0 THEN 0 - a ELSE a

Max(a, b) == IF a > b THEN a ELSE b

CeilDiv(a, b) == (a + b - 1) \div b

Range(s) == {s[i] : i \in DOMAIN s}

(* A `const` binding: Bind([v \in {e} |-> body]) is body with v standing   *)
(* for the value of e, which is computed once.                             *)
Bind(f) == f[CHOOSE v \in DOMAIN f : TRUE]

RECURSIVE SumGPM(_)
SumGPM(hs) == IF hs = <<>> THEN 0 ELSE SumGPM(SubSeq(hs, 1, Len(hs) - 1)) + hs[Len(hs)].gpm

MkId(p, n) == [p |-> p, n |-> n]

NoId == [p |-> "", n |-> 0]

----------------------------------------------------------------------------
(* data/materials.ts: the head catalog and the selection rule *)

SPRINKLER_HEADS ==
  << [id |-> "i-40-04-ss", category |-> "rotor", name |-> "Rotor - Large Turf",
      manufacturer |-> "Hunter", model |-> "I-40-04-SS",
      defaultRadiusFt |-> Ft(42), gpmAtDefaultRadius |-> Tenths(42), psi |-> 45, nozzle |-> "#6.0"],
     [id |-> "5004-pc-sam", category |-> "rotor", name |-> "Rotor - Medium Turf",
      manufacturer |-> "Rain Bird", model |-> "5004-PC-SAM",
      defaultRadiusFt |-> Ft(35), gpmAtDefaultRadius |-> Tenths(30), psi |-> 45, nozzle |-> "#3.0"],
     [id |-> "pgp-adj", category |-> "rotor", name |-> "Rotor - Small Turf",
      manufacturer |-> "Hunter", model |-> "PGP-ADJ",
      defaultRadiusFt |-> Ft(25), gpmAtDefaultRadius |-> Tenths(22), psi |-> 45, nozzle |-> "#2.0"],
     [id |-> "1804-sam-prs", category |-> "spray", name |-> "Spray - Fixed",
      manufacturer |-> "Rain Bird", model |-> "1804-SAM-PRS",
      defaultRadiusFt |-> Ft(12), gpmAtDefaultRadius |-> Tenths(15), psi |-> 30, nozzle |-> "15-SST"],
     [id |-> "mp3000", category |-> "rotary-nozzle", name |-> "Spray - Rotary Nozzle",
      manufacturer |-> "Hunter", model |-> "MP Rotator MP3000",
      defaultRadiusFt |-> Ft(15), gpmAtDefaultRadius |-> Tenths(9), psi |-> 40, nozzle |-> "MP3000"],
     [id |-> "he-van-15-sst", category |-> "strip", name |-> "Spray - Strip",
      manufacturer |-> "Rain Bird", model |-> "HE-VAN-15-SST",
      defaultRadiusFt |-> Ft(8), gpmAtDefaultRadius |-> Tenths(10), psi |-> 30, nozzle |-> "HE-VAN"],
     [id |-> "tlcv-09-12-500", category |-> "drip", name |-> "Drip Emitter Line",
      manufacturer |-> "Netafim", model |-> "Techline TLCV-09-12-500",
      defaultRadiusFt |-> Ft(0), gpmAtDefaultRadius |-> 0, psi |-> 30, nozzle |-> "0.9 GPH @ 12in OC"],
     [id |-> "44rc", category |-> "quick-coupler", name |-> "Quick Coupler Valve",
      manufacturer |-> "Rain Bird", model |-> "44RC",
      defaultRadiusFt |-> Ft(0), gpmAtDefaultRadius |-> 0, psi |-> 0, nozzle |-> ""] >>

HeadSpecById(id) == CHOOSE h \in Range(SPRINKLER_HEADS) : h.id = id

SelectDripForLargeBeds(zoneType, maxDimensionFt, isAthleticField) ==
  IF zoneType = "narrow-strip" THEN HeadSpecById("he-van-15-sst")
  ELSE IF zoneType \in {"bed", "tree-ring", "planter"}
    THEN IF maxDimensionFt <= Ft(8) THEN HeadSpecById("he-van-15-sst")
         ELSE IF maxDimensionFt <= Ft(21) THEN HeadSpecById("mp3000")
         ELSE HeadSpecById("tlcv-09-12-500")
  ELSE IF isAthleticField \/ maxDimensionFt > Ft(80) THEN HeadSpecById("i-40-04-ss")
  ELSE IF maxDimensionFt > Ft(50) THEN HeadSpecById("5004-pc-sam")
  ELSE IF maxDimensionFt > Ft(25) THEN HeadSpecById("pgp-adj")
  ELSE HeadSpecById("1804-sam-prs")

SelectHeadByDimension(zoneType, maxDimensionFt, isAthleticField) ==
  IF zoneType = "narrow-strip" THEN HeadSpecById("he-van-15-sst")
  ELSE IF zoneType \in {"bed", "tree-ring", "planter"}
    THEN IF maxDimensionFt <= Ft(8) THEN HeadSpecById("he-van-15-sst")
         ELSE IF maxDimensionFt <= Ft(21) THEN HeadSpecById("mp3000")
         ELSE HeadSpecById("1804-sam-prs")
  ELSE IF maxDimensionFt > Ft(80) THEN HeadSpecById("i-40-04-ss")
  ELSE IF maxDimensionFt > Ft(50) THEN HeadSpecById("5004-pc-sam")
  ELSE IF maxDimensionFt > Ft(25) THEN HeadSpecById("pgp-adj")
  ELSE HeadSpecById("1804-sam-prs")

selectHeadForZone(zoneType, maxDimensionFt, isAthleticField) ==
  IF zoneType = "narrow-strip" THEN HeadSpecById("he-van-15-sst")
  ELSE IF zoneType \in {"bed", "tree-ring", "planter"}
    THEN IF maxDimensionFt <= Ft(8) THEN HeadSpecById("he-van-15-sst")
         ELSE IF maxDimensionFt <= Ft(21) THEN HeadSpecById("mp3000")
         ELSE HeadSpecById("1804-sam-prs")
  ELSE IF isAthleticField \/ maxDimensionFt > Ft(80) THEN HeadSpecById("i-40-04-ss")
  ELSE IF maxDimensionFt > Ft(50) THEN HeadSpecById("5004-pc-sam")
  ELSE IF maxDimensionFt > Ft(25) THEN HeadSpecById("pgp-adj")
  ELSE HeadSpecById("1804-sam-prs")

----------------------------------------------------------------------------
(* utils/geometry.ts *)

boundingBox(points) ==
  LET xs == {points[i].x : i \in DOMAIN points}
      ys == {points[i].y : i \in DOMAIN points}
      minX == CHOOSE v \in xs : \A w \in xs : v <= w
      maxX == CHOOSE v \in xs : \A w \in xs : v >= w
      minY == CHOOSE v \in ys : \A w \in ys : v <= w
      maxY == CHOOSE v \in ys : \A w \in ys : v >= w
  IN [minX |-> minX, minY |-> minY, maxX |-> maxX, maxY |-> maxY,
      width |-> maxX - minX, height |-> maxY - minY]

NoOffset(pattern, row, spacingX) == 0

(* The shift of a row of the grid *)
OffsetX(pattern, row, spacingX) ==
  IF pattern = "triangular" /\ row % 2 = 1 THEN spacingX \div 2 ELSE 0

generateGridPoints(originX, originY, width, height, spacingX, spacingY, pattern) ==
  LET cols == CeilDiv(width, spacingX) + 1
      rows == CeilDiv(height, spacingY) + 1
      rowOf(k) == (k - 1) \div cols
      colOf(k) == (k - 1) % cols
      pt(k) == [x |-> originX + colOf(k) * spacingX + OffsetX(pattern, rowOf(k), spacingX),
                y |-> originY + rowOf(k) * spacingY]
      all == [k \in 1..(rows * cols) |-> pt(k)]
      keep(p) == p.x <= originX + width /\ p.y <= originY + height
  IN SelectSeq(all, keep)

isPointInPolygon(point, polygon) ==
  LET n == Len(polygon)
      prev(i) == IF i = 1 THEN n ELSE i - 1
      crosses(i) ==
        LET xi == polygon[i].x
            yi == polygon[i].y
            xj == polygon[prev(i)].x
            yj == polygon[prev(i)].y
        IN /\ (yi > point.y) # (yj > point.y)
           /\ IF yj - yi > 0
                THEN (point.x - xi) * (yj - yi) < (xj - xi) * (point.y - yi)
                ELSE (point.x - xi) * (yj - yi) > (xj - xi) * (point.y - yi)
  IN Cardinality({i \in 1..n : crosses(i)}) % 2 = 1

----------------------------------------------------------------------------
(* engine/headPlacement.ts.  The module-level headCounter is threaded      *)
(* through the operators: each takes the counter value it starts from and  *)
(* returns the heads together with the counter value it leaves behind.     *)

StaleHeadId(hc) == MkId("H", hc)

nextHeadId(hc) == MkId("H", hc + 1)

determineArc(pt, bb) ==
  LET edgeThreshold == Ft(2)
      atLeft == Abs(pt.x - bb.minX) < edgeThreshold
      atRight == Abs(pt.x - bb.maxX) < edgeThreshold
      atTop == Abs(pt.y - bb.minY) < edgeThreshold
      atBottom == Abs(pt.y - bb.maxY) < edgeThreshold
      edgeCount == Cardinality({k \in 1..4 : <<atLeft, atRight, atTop, atBottom>>[k]})
  IN IF edgeCount >= 2 THEN 90 ELSE IF edgeCount = 1 THEN 180 ELSE 360

IgnoreArc(fullCircleGPM, arc) == fullCircleGPM

adjustGPMForArc(fullCircleGPM, arc) == (fullCircleGPM * arc) \div 360

placeDripZone(zone, headSpec, hc) ==
  [heads |-> << [id |-> nextHeadId(hc), x |-> zone.centerX, y |-> zone.centerY,
                 type |-> "drip", model |-> headSpec.model,
                 manufacturer |-> headSpec.manufacturer, arc |-> 0, radiusFt |-> 0,
                 gpm |-> (zone.areaFt2 * 36) \div 144, psi |-> 30,
                 nozzle |-> headSpec.nozzle, zoneId |-> NoId] >>,
   hc |-> hc + 1]

placeHeadsInZone(zone, isAthleticField, hc) ==
  Bind([headSpec \in {selectHeadForZone(zone.type, Max(zone.widthFt, zone.lengthFt),
                                         isAthleticField)} |->
    IF headSpec.category = "drip"
      THEN placeDripZone(zone, headSpec, hc)
      ELSE
        Bind([bb \in {IF Len(zone.boundaryPoints) > 0
                        THEN boundingBox(zone.boundaryPoints)
                        ELSE [minX |-> zone.centerX - zone.widthFt \div 2,
                              minY |-> zone.centerY - zone.lengthFt \div 2,
                              maxX |-> zone.centerX + zone.widthFt \div 2,
                              maxY |-> zone.centerY + zone.lengthFt \div 2,
                              width |-> zone.widthFt, height |-> zone.lengthFt]} |->
          LET spacing == headSpec.defaultRadiusFt
              pattern == IF isAthleticField THEN "triangular" ELSE "square"
              gridPoints == generateGridPoints(bb.minX, bb.minY, bb.width, bb.height,
                                               spacing, spacing, pattern)
              inBounds(pt) == IF Len(zone.boundaryPoints) >= 3
                                THEN isPointInPolygon(pt, zone.boundaryPoints)
                                ELSE TRUE
              headType == IF headSpec.category = "rotary-nozzle" THEN "rotary-nozzle"
                          ELSE IF headSpec.category = "strip" THEN "strip"
                          ELSE IF headSpec.category = "rotor" THEN "rotor"
                          ELSE "spray"
          IN Bind([kept \in {SelectSeq(gridPoints, inBounds)} |->
               LET mk(i) ==
                     Bind([arc \in {determineArc(kept[i], bb)} |->
                       [id |-> nextHeadId(hc + i - 1), x |-> kept[i].x, y |-> kept[i].y,
                        type |-> headType, model |-> headSpec.model,
                        manufacturer |-> headSpec.manufacturer, arc |-> arc,
                        radiusFt |-> headSpec.defaultRadiusFt,
                        gpm |-> adjustGPMForArc(headSpec.gpmAtDefaultRadius, arc),
                        psi |-> headSpec.psi, nozzle |-> headSpec.nozzle, zoneId |-> NoId]])
               IN [heads |-> [i \in 1..Len(kept) |-> mk(i)], hc |-> hc + Len(kept)]])])])

RECURSIVE PlaceZones(_, _, _)
PlaceZones(zs, k, hc) ==
  IF k > Len(zs) THEN [heads |-> <<>>, hc |-> hc]
  ELSE Bind([r \in {placeHeadsInZone(zs[k].zone, zs[k].athletic, hc)} |->
         Bind([rest \in {PlaceZones(zs, k + 1, r.hc)} |->
           [heads |-> r.heads \o rest.heads, hc |-> rest.hc]])])

QuickCouplersAtMidfield(siteAnalysis, hc) ==
  LET qc == HeadSpecById("44rc")
  IN [i \in 1..3 |->
        [id |-> nextHeadId(hc + i - 1), x |-> siteAnalysis.propertyWidthFt \div 2,
         y |-> siteAnalysis.propertyLengthFt \div 2,
         type |-> "quick-coupler", model |-> qc.model, manufacturer |-> qc.manufacturer,
         arc |-> 0, radiusFt |-> 0, gpm |-> 0, psi |-> 0, nozzle |-> "", zoneId |-> NoId]]

QuickCouplers(siteAnalysis, hc) ==
  LET propWidth == siteAnalysis.propertyWidthFt
      propLength == siteAnalysis.propertyLengthFt
      qcPositions == << [x |-> propWidth \div 2, y |-> propLength \div 2],
                        [x |-> propWidth \div 2, y |-> propLength \div 4],
                        [x |-> propWidth \div 2, y |-> (propLength * 3) \div 4] >>
      qc == HeadSpecById("44rc")
  IN [i \in 1..3 |->
        [id |-> nextHeadId(hc + i - 1), x |-> qcPositions[i].x, y |-> qcPositions[i].y,
         type |-> "quick-coupler", model |-> qc.model, manufacturer |-> qc.manufacturer,
         arc |-> 0, radiusFt |-> 0, gpm |-> 0, psi |-> 0, nozzle |-> "", zoneId |-> NoId]]

KeepHeadCounter(hc) == hc

ResetHeadCounter(hc) == 0

placeAllHeads(siteAnalysis, projectInput, hc) ==
  LET hc0 == ResetHeadCounter(hc)
      isAthletic == projectInput.applicationType = "athletic-field"
      tag(zs, a) == [i \in 1..Len(zs) |-> [zone |-> zs[i], athletic |-> a]]
  IN Bind([placed \in {PlaceZones(tag(siteAnalysis.turfZones, isAthletic)
                                     \o tag(siteAnalysis.bedZones, FALSE)
                                     \o tag(siteAnalysis.narrowStrips, FALSE), 1, hc0)} |->
       IF isAthletic
         THEN [heads |-> placed.heads \o QuickCouplers(siteAnalysis, placed.hc),
               hc |-> placed.hc + 3]
         ELSE placed])

----------------------------------------------------------------------------
(* data/designRules.ts and the valve catalog of data/materials.ts *)

(* JavaScript numbers that are flows or sums of flows.  Dbl(k, e) is the    *)
(* real number (k + e * 2^-60) / 40: k counts fortieths of a GPM and e is  *)
(* the representation error, an integer because every double from 2^-8 up  *)
(* is a multiple of 2^-60.                                                 *)
Dbl(k, e) == [k |-> k, e |-> e]

Pow2(n) == 2 ^ n

(* 2^n modulo m, for n up to 60, without leaving 32-bit integers *)
Pow2Mod(n, m) ==
  IF n <= 30 THEN Pow2(n) % m ELSE ((Pow2(30) % m) * (Pow2(n - 30) % m)) % m

(* The binade of (k + e * 2^-60) / 40: the least j with the value below  *)
(* 2^(j-7); the doubles of that binade are 2^(j-60) apart.  The flows of   *)
(* a design stay far below 2^21 GPM.                                       *)
Binade(k, e) ==
  Cardinality({j \in 0..28 : 16 * k > 5 * Pow2(j) \/ (16 * k = 5 * Pow2(j) /\ e >= 0)})

(* Round to nearest, ties to even: m is the excess of the value over the   *)
(* double below it, in units of 2^-60 / 40; m2 is the same excess over the *)
(* even double below it                                                    *)
RoundToDouble(k, e) ==
  IF k = 0 THEN Dbl(0, 0)
  ELSE Bind([j \in {Binade(k, e)} |->
         Bind([m \in {(Pow2(j) * ((k * Pow2Mod(60 - j, 40)) % 40) + e) % (40 * Pow2(j))},
               m2 \in {(Pow2(j) * ((k * Pow2Mod(60 - j, 80)) % 80) + e) % (80 * Pow2(j))} |->
           IF m < 20 * Pow2(j) \/ (m = 20 * Pow2(j) /\ m2 = m)
             THEN Dbl(k, e - m)
             ELSE Dbl(k, e + 40 * Pow2(j) - m)])])

(* A flow of the model (fortieths of a GPM) as the double the code holds *)
DblOfFlow(gpm) == RoundToDouble(gpm, 0)

DblAdd(a, b) == RoundToDouble(a.k + b.k, a.e + b.e)

DblGreater(a, b) == a.k > b.k \/ (a.k = b.k /\ a.e > b.e)

(* x * 10 *)
DblTimes10(a) == RoundToDouble(10 * a.k, 10 * a.e)

(* Math.round(x), for x >= 0: the integer floor(x + 1/2) *)
MathRound(a) ==
  IF (a.k + 20) % 40 = 0 /\ a.e < 0 THEN (a.k + 20) \div 40 - 1 ELSE (a.k + 20) \div 40

(* heads.reduce((sum, h) => sum + h.gpm, 0) in doubles *)
RECURSIVE DblSumFrom(_, _, _)
DblSumFrom(sum, hs, i) ==
  IF i > Len(hs) THEN sum
  ELSE Bind([next \in {DblAdd(sum, DblOfFlow(hs[i].gpm))} |-> DblSumFrom(next, hs, i + 1)])

DblSumGPM(hs) == DblSumFrom(Dbl(0, 0), hs, 1)

ExactTotal(heads) == SumGPM(heads)

(* Math.round(totalGPM * 10) / 10, as a flow of the model *)
RoundedTotal(heads) == Tenths(MathRound(DblTimes10(DblSumGPM(heads))))

getMainlineSizeIn(totalGPM) ==
  IF ~DblGreater(DblOfFlow(Tenths(400)), totalGPM) THEN 200 ELSE 150

getLateralSizeIn(headType) == IF headType = "rotor" THEN 100 ELSE 75

needsMasterValve(totalGPM) == DblGreater(totalGPM, DblOfFlow(Tenths(300)))

LateralTierFrom1In(lateralSizeIn) ==
  IF lateralSizeIn >= 100 THEN Tenths(220) ELSE Tenths(150)

getMaxGPMForLateral(lateralSizeIn) == IF lateralSizeIn >= 125 THEN Tenths(220) ELSE Tenths(150)

VALVES ==
  << [id |-> "peb-100", category |-> "zone", name |-> "Zone Valve - 1 inch",
      manufacturer |-> "Rain Bird", model |-> "PEB-100", sizeIn |-> 100],
     [id |-> "peb-150", category |-> "zone", name |-> "Zone Valve - 1.5 inch",
      manufacturer |-> "Rain Bird", model |-> "PEB-150", sizeIn |-> 150],
     [id |-> "200-peb", category |-> "master", name |-> "Master Valve",
      manufacturer |-> "Rain Bird", model |-> "200-PEB", sizeIn |-> 200],
     [id |-> "009m2-qt", category |-> "backflow", name |-> "Backflow - RPZ",
      manufacturer |-> "Watts", model |-> "009M2-QT", sizeIn |-> 150] >>

ValveById(id) == CHOOSE v \in Range(VALVES) : v.id = id

selectValveForZone(totalGPM) ==
  IF totalGPM > Tenths(150) THEN ValveById("peb-150") ELSE ValveById("peb-100")

ZONE_COLORS ==
  << "#DC2626", "#2563EB", "#16A34A", "#EA580C", "#9333EA", "#92400E", "#DB2777", "#0D9488" >>

getZoneColor(zoneIndex) == ZONE_COLORS[(zoneIndex % Len(ZONE_COLORS)) + 1]

----------------------------------------------------------------------------
(* engine/zoneAssignment.ts.  Head objects live in a heap (a sequence of   *)
(* records, a reference being an index), arrays are sequences of           *)
(* references: this keeps apart writing to an object and replacing an      *)
(* array element by a fresh object.                                        *)

Deref(heap, refs) == [i \in DOMAIN refs |-> heap[refs[i]]]

(* Keys of the Record<string, HeadPlacement[]> in insertion order *)
RECURSIVE GroupKeys(_)
GroupKeys(heads) ==
  IF heads = <<>> THEN <<>>
  ELSE LET front == GroupKeys(SubSeq(heads, 1, Len(heads) - 1))
           key == heads[Len(heads)].type
       IN IF key \in Range(front) THEN front ELSE Append(front, key)

GroupAllTogether(heap, refs) == IF refs = <<>> THEN <<>> ELSE <<refs>>

groupHeadsByType(heap, refs) ==
  LET keys == GroupKeys(Deref(heap, refs))
  IN [k \in DOMAIN keys |->
        LET isKey(r) == heap[r].type = keys[k] IN SelectSeq(refs, isKey)]

RoundHalfUp(num, den) == (2 * num + den) \div (2 * den)

RECURSIVE SumRadiusFt(_)
SumRadiusFt(hs) ==
  IF hs = <<>> THEN 0 ELSE SumRadiusFt(Tail(hs)) + (Head(hs).radiusFt \div 4)

(* estimateZoneArea as the fraction areaNum/areaDen (square feet), pi      *)
(* taken as 355/113 *)
estimateZoneArea(heads) ==
  LET n == Len(heads)
      sumR == SumRadiusFt(heads)
  IN IF n = 0 THEN [num |-> 0, den |-> 1]
     ELSE IF heads[1].type = "drip" THEN [num |-> n * 35500, den |-> 113]
     ELSE [num |-> sumR * sumR, den |-> n]

(* precipRate = totalGPM * 96.25 / totalArea, rounded to hundredths of     *)
(* in/hr (the field counts hundredths); runtime = (0.5 / precipRate) * 60  *)
(* rounded to whole minutes *)
ZoneRates(heads, totalGPM) ==
  Bind([totalArea \in {estimateZoneArea(heads)} |->
    IF totalArea.num > 0 /\ totalGPM > 0
      THEN [precipRateInPerHr |-> RoundHalfUp(1925 * totalGPM * totalArea.den,
                                              8 * totalArea.num),
            runtimeMinutes |-> RoundHalfUp(960 * totalArea.num,
                                           77 * totalGPM * totalArea.den)]
      ELSE [precipRateInPerHr |-> 0, runtimeMinutes |-> 0]])

createZone(number, heads, headType) ==
  Bind([totalGPM \in {SumGPM(heads)} |->
    Bind([rates \in {ZoneRates(heads, totalGPM)}, valve \in {selectValveForZone(totalGPM)} |->
      [id |-> MkId("Z", number),
       number |-> number,
       headType |-> headType,
       exposure |-> "full-sun",
       heads |-> [i \in DOMAIN heads |-> heads[i].id],
       totalGPM |-> RoundedTotal(heads),
       precipRateInPerHr |-> rates.precipRateInPerHr,
       runtimeMinutes |-> rates.runtimeMinutes,
       color |-> getZoneColor(number - 1),
       valveModel |-> valve.model,
       valveSize |-> valve.sizeIn]])])

WriteZoneIdInPlace(st, idx, zoneId) ==
  [heap |-> [st.heap EXCEPT ![st.arr[idx]].zoneId = zoneId], arr |-> st.arr]

(* allHeads[idx] = { ...allHeads[idx], zoneId }: a fresh object, stored   *)
(* in the array; the object the array held before is not written to.      *)
StoreZoneId(st, idx, zoneId) ==
  [heap |-> Append(st.heap, [st.heap[st.arr[idx]] EXCEPT !.zoneId = zoneId]),
   arr |-> [st.arr EXCEPT ![idx] = Len(st.heap) + 1]]

AssignNothing(st, zoneHeads, zoneId) == st

RECURSIVE assignHeadsToZone(_, _, _)
assignHeadsToZone(st, zoneHeads, zoneId) ==
  IF zoneHeads = <<>> THEN st
  ELSE LET zh == st.heap[Head(zoneHeads)]
           found == {i \in DOMAIN st.arr : st.heap[st.arr[i]].id = zh.id}
           idx == CHOOSE i \in found : \A j \in found : i <= j
           st1 == IF found # {} THEN StoreZoneId(st, idx, zoneId) ELSE st
       IN assignHeadsToZone(st1, Tail(zoneHeads), zoneId)

(* Closing the current zone: createZone, zones.push, assignHeadsToZone,   *)
(* zoneNumber++ *)
CloseZone(acc, currentZoneHeads, headType) ==
  Bind([zone \in {createZone(acc.zoneNumber, Deref(acc.st.heap, currentZoneHeads),
                              headType)} |->
    [zones |-> Append(acc.zones, zone),
     zoneNumber |-> acc.zoneNumber + 1,
     st |-> assignHeadsToZone(acc.st, currentZoneHeads, zone.id)]])

CloseAfterOverflow(currentGPM, head, maxGPM, currentZoneHeads) ==
  currentGPM > maxGPM /\ Len(currentZoneHeads) > 0

CloseBeforeEveryHead(currentGPM, head, maxGPM, currentZoneHeads) ==
  Len(currentZoneHeads) > 0

(* The test that closes the current zone before a head is added *)
MustClose(currentGPM, head, maxGPM, currentZoneHeads) ==
  currentGPM + head.gpm > maxGPM /\ Len(currentZoneHeads) > 0

(* The inner loop over one group, from head k on, with the loop's locals  *)
RECURSIVE PackGroup(_, _, _, _, _, _, _)
PackGroup(acc, groupHeads, k, currentZoneHeads, currentGPM, headType, maxGPM) ==
  IF k > Len(groupHeads)
    THEN IF Len(currentZoneHeads) > 0
           THEN CloseZone(acc, currentZoneHeads, headType)
           ELSE acc
    ELSE LET head == acc.st.heap[groupHeads[k]]
             closes == MustClose(currentGPM, head, maxGPM, currentZoneHeads)
         IN PackGroup(IF closes THEN CloseZone(acc, currentZoneHeads, headType) ELSE acc,
                      groupHeads, k + 1,
                      IF closes THEN <<groupHeads[k]>>
                                ELSE Append(currentZoneHeads, groupHeads[k]),
                      IF closes THEN head.gpm ELSE currentGPM + head.gpm,
                      headType, maxGPM)

RECURSIVE PackGroups(_, _, _)
PackGroups(acc, groups, g) ==
  IF g > Len(groups) THEN acc
  ELSE LET groupHeads == groups[g]
           headType == acc.st.heap[groupHeads[1]].type
           maxGPM == getMaxGPMForLateral(getLateralSizeIn(headType))
       IN IF headType = "quick-coupler"
            THEN PackGroups(acc, groups, g + 1)
            ELSE PackGroups(PackGroup(acc, groupHeads, 1, <<>>, 0, headType, maxGPM),
                            groups, g + 1)

(* assignZones on the caller's array `heads` of references into `heap`.   *)
(* Returns the zones, the updatedHeads array and the heap it leaves.      *)
assignZones(heap, heads) ==
  Bind([acc \in {PackGroups([zones |-> <<>>, zoneNumber |-> 1,
                              st |-> [heap |-> heap, arr |-> heads]],
                             groupHeadsByType(heap, heads), 1)} |->
    [zones |-> acc.zones, updatedHeads |-> acc.st.arr, heap |-> acc.st.heap]])

(* assignZones on head values: the caller's objects are the heap cells    *)
(* 1..Len(heads).  callerHeads is the caller's list as it reads after the *)
(* call. *)
AssignZonesOf(heads) ==
  Bind([r \in {assignZones(heads, [i \in DOMAIN heads |-> i])} |->
    [zones |-> r.zones,
     updatedHeads |-> Deref(r.heap, r.updatedHeads),
     callerHeads |-> SubSeq(r.heap, 1, Len(heads))]])

----------------------------------------------------------------------------
(* engine/pipeRouting.ts.  A zone valve sits at the centroid of the zone's *)
(* heads, which is not a whole number of quarter feet: the coordinates of  *)
(* valves and pipe ends are exact fractions [n, d] in lowest terms.        *)

RECURSIVE GCD(_, _)
GCD(a, b) == IF b = 0 THEN a ELSE GCD(b, a % b)

Rat(n, d) == LET g == GCD(Abs(n), d) IN [n |-> n \div g, d |-> d \div g]

Whole(i) == [n |-> i, d |-> 1]

RECURSIVE SumX(_)
SumX(hs) == IF hs = <<>> THEN 0 ELSE SumX(SubSeq(hs, 1, Len(hs) - 1)) + hs[Len(hs)].x

RECURSIVE SumY(_)
SumY(hs) == IF hs = <<>> THEN 0 ELSE SumY(SubSeq(hs, 1, Len(hs) - 1)) + hs[Len(hs)].y

centroid(points) ==
  [x |-> Rat(SumX(points), Len(points)), y |-> Rat(SumY(points), Len(points))]

RatSub(a, b) == Rat(a.n * b.d - b.n * a.d, a.d * b.d)

RatAdd(a, b) == Rat(a.n * b.d + b.n * a.d, a.d * b.d)

(* distance(a, b) < distance(c, e), compared on the squares; within one   *)
(* zone every denominator divides the number of heads `scale` *)
SqDist(a, b, scale) ==
  Bind([dx \in {RatSub(a.x, b.x)}, dy \in {RatSub(a.y, b.y)} |->
    Bind([sx \in {dx.n * (scale \div dx.d)}, sy \in {dy.n * (scale \div dy.d)} |->
      sx * sx + sy * sy])])

PointOf(h) == [x |-> Whole(h.x), y |-> Whole(h.y)]

RECURSIVE NearestFrom(_, _, _, _, _, _)
NearestFrom(target, allHeads, k, nearest, minDist, scale) ==
  IF k > Len(allHeads) THEN nearest
  ELSE Bind([h \in {allHeads[k]} |->
         Bind([d \in {SqDist(PointOf(target), PointOf(h), scale)} |->
           IF h.id # target.id /\ d < minDist
             THEN NearestFrom(target, allHeads, k + 1, PointOf(h), d, scale)
             ELSE NearestFrom(target, allHeads, k + 1, nearest, minDist, scale)])])

AlwaysFromValve(target, allHeads, valvePos) == valvePos

findNearestHead(target, allHeads, valvePos) ==
  NearestFrom(target, allHeads, 1, valvePos,
              SqDist(PointOf(target), valvePos, Len(allHeads)), Len(allHeads))

nextPipeId(pc) == MkId("P", pc + 1)

Null == [p |-> "null", n |-> 0]

InAnyZone(h, zone) == h.zoneId # NoId

(* The filter that picks a zone's heads out of the head list *)
InZone(h, zone) == h.zoneId = zone.id

ValveAtCentroid(zoneCenter) == zoneCenter

(* The zone valve sits 3 ft up and left of the centroid *)
ValvePosOf(zoneCenter) ==
  [x |-> RatSub(zoneCenter.x, Whole(Ft(3))), y |-> RatSub(zoneCenter.y, Whole(Ft(3)))]

(* One iteration of `for (const zone of zones)` *)
RouteZone(acc, zone, heads, mainlineStartX, pocPos, mainlineSize) ==
  Bind([zoneHeads \in {SelectSeq(heads, LAMBDA h : InZone(h, zone))} |->
    IF Len(zoneHeads) = 0 THEN acc
    ELSE
      Bind([zoneCenter \in {centroid(zoneHeads)} |->
        Bind([valvePos \in {ValvePosOf(zoneCenter)},
              served \in {SelectSeq(zoneHeads, LAMBDA h : h.type # "quick-coupler")} |->
          LET valve == [id |-> MkId("V", zone.number), x |-> valvePos.x, y |-> valvePos.y,
                        model |-> zone.valveModel, size |-> zone.valveSize,
                        type |-> "zone", zoneId |-> zone.id]
              mainline == [id |-> nextPipeId(acc.pc), startX |-> mainlineStartX,
                           startY |-> pocPos.y, endX |-> valvePos.x, endY |-> valvePos.y,
                           diameterIn |-> mainlineSize, material |-> "sch40-pvc",
                           type |-> "mainline", zoneId |-> Null]
              lateralSize == IF zone.headType = "rotor" THEN 100 ELSE 75
              lateral(i) ==
                Bind([head \in {served[i]} |->
                  Bind([nearestToValve \in {findNearestHead(head, zoneHeads, valvePos)} |->
                    [id |-> nextPipeId(acc.pc + i), startX |-> nearestToValve.x,
                     startY |-> nearestToValve.y,
                     endX |-> Whole(head.x), endY |-> Whole(head.y),
                     diameterIn |-> lateralSize, material |-> "class200-pvc",
                     type |-> IF zone.headType = "drip" THEN "drip-supply" ELSE "lateral",
                     zoneId |-> zone.id]])])
          IN [pipes |-> acc.pipes \o <<mainline>> \o [i \in 1..Len(served) |-> lateral(i)],
              valves |-> Append(acc.valves, valve),
              pc |-> acc.pc + 1 + Len(served)]])])])

RECURSIVE RouteZones(_, _, _, _, _, _, _)
RouteZones(acc, zones, k, heads, mainlineStartX, pocPos, mainlineSize) ==
  IF k > Len(zones) THEN acc
  ELSE RouteZones(RouteZone(acc, zones[k], heads, mainlineStartX, pocPos, mainlineSize),
                  zones, k + 1, heads, mainlineStartX, pocPos, mainlineSize)

RECURSIVE SumZoneGPM(_)
SumZoneGPM(zs) ==
  IF zs = <<>> THEN 0 ELSE SumZoneGPM(SubSeq(zs, 1, Len(zs) - 1)) + zs[Len(zs)].totalGPM

(* The same reduce as the code evaluates it, in doubles, from the left *)
RECURSIVE DblSumZoneGPM(_)
DblSumZoneGPM(zs) ==
  IF zs = <<>> THEN Dbl(0, 0)
  ELSE DblAdd(DblSumZoneGPM(SubSeq(zs, 1, Len(zs) - 1)), DblOfFlow(zs[Len(zs)].totalGPM))

KeepPipeCounter(pc) == pc

ResetPipeCounter(pc) == 0

routePipes(siteAnalysis, heads, zones, projectInput, pc) ==
  Bind([pc0 \in {ResetPipeCounter(pc)},
        pocPos \in {IF siteAnalysis.waterSourceLocation # Null
                      THEN PointOf(siteAnalysis.waterSourceLocation)
                      ELSE [x |-> Whole(Ft(5)), y |-> Rat(siteAnalysis.propertyLengthFt, 2)]},
        totalGPM \in {DblSumZoneGPM(zones)},
        controllerPos \in {IF siteAnalysis.controllerLocation # Null
                             THEN siteAnalysis.controllerLocation
                             ELSE [x |-> siteAnalysis.nearestBuildingLocation.x,
                                   y |-> siteAnalysis.nearestBuildingLocation.y + Ft(5)]} |->
    Bind([mainlineSize \in {getMainlineSizeIn(totalGPM)},
          backflowPos \in {[x |-> RatAdd(pocPos.x, Whole(Ft(5))), y |-> pocPos.y]} |->
      LET rpz == ValveById("009m2-qt")
          masterValve == ValveById("200-peb")
          mvPos == [x |-> RatAdd(backflowPos.x, Whole(Ft(10))), y |-> backflowPos.y]
          start == IF needsMasterValve(totalGPM)
                     THEN [pipes |-> << [id |-> nextPipeId(pc0), startX |-> backflowPos.x,
                                         startY |-> backflowPos.y, endX |-> mvPos.x,
                                         endY |-> mvPos.y, diameterIn |-> mainlineSize,
                                         material |-> "sch40-pvc", type |-> "mainline",
                                         zoneId |-> Null] >>,
                           valves |-> << [id |-> MkId("MV", 1), x |-> mvPos.x, y |-> mvPos.y,
                                          model |-> masterValve.model,
                                          size |-> masterValve.sizeIn,
                                          type |-> "master", zoneId |-> Null] >>,
                           pc |-> pc0 + 1]
                     ELSE [pipes |-> <<>>, valves |-> <<>>, pc |-> pc0]
          mainlineStartX == IF needsMasterValve(totalGPM)
                              THEN RatAdd(backflowPos.x, Whole(Ft(10)))
                              ELSE RatAdd(backflowPos.x, Whole(Ft(5)))
      IN Bind([routed \in {RouteZones(start, zones, 1, heads, mainlineStartX, pocPos,
                                      mainlineSize)} |->
           [pipes |-> routed.pipes,
            valves |-> routed.valves,
            poc |-> pocPos,
            backflow |-> [x |-> backflowPos.x, y |-> backflowPos.y,
                          model |-> rpz.model, size |-> mainlineSize],
            controller |-> [x |-> controllerPos.x, y |-> controllerPos.y,
                            model |-> "ESP-LXME2"],
            rainSensor |-> [x |-> controllerPos.x + Ft(2), y |-> controllerPos.y - Ft(2),
                            model |-> "Rain-Clik"],
            pc |-> routed.pc]])])])

----------------------------------------------------------------------------
(* engine/materialCalc.ts.  Segment lengths are square roots: distance is *)
(* computed in hundredths of a foot, rounded down.                         *)

RECURSIVE Newton(_, _)
Newton(n, x) == LET y == (x + n \div x) \div 2 IN IF y >= x THEN x ELSE Newton(n, y)

ISqrt(n) == IF n = 0 THEN 0 ELSE Newton(n, IF n < 46341 THEN n ELSE 46341)

(* floor(100 * sqrt(n)), exact for small n and to first order above *)
Sqrt100(n) ==
  IF n < 200000 THEN ISqrt(n * 10000)
  ELSE Bind([r \in {ISqrt(n)} |-> 100 * r + (100 * (n - r * r)) \div (2 * r)])

distance(ax, ay, bx, by) ==
  Bind([dx \in {RatSub(bx, ax)}, dy \in {RatSub(by, ay)} |->
    Bind([den \in {(dx.d * dy.d) \div GCD(dx.d, dy.d)} |->
      Bind([sx \in {dx.n * (den \div dx.d)}, sy \in {dy.n * (den \div dy.d)} |->
        Sqrt100(sx * sx + sy * sy) \div (4 * den)])])])

SWING_JOINT == [name |-> "Swing Joint", manufacturer |-> "Hunter", model |-> "SJ-506"]

VALVE_BOXES ==
  [jumbo |-> [name |-> "Valve Box - Standard", manufacturer |-> "Carson", model |-> "1419-12"]]

WIRE == [common |-> [name |-> "Wire - Common", spec |-> "14 AWG UF, white"],
         zone |-> [name |-> "Wire - Zone", spec |-> "18 AWG UF, color-coded"]]

(* The pipe catalog: size in hundredths of an inch, maxGPM a flow *)
PIPES ==
  << [id |-> "main-2in", name |-> "Mainline Pipe - 2 inch", sizeIn |-> 200,
      type |-> "mainline", maxGPM |-> Tenths(800)],
     [id |-> "main-1.5in", name |-> "Mainline Pipe - 1.5 inch", sizeIn |-> 150,
      type |-> "mainline", maxGPM |-> Tenths(400)],
     [id |-> "lat-1in", name |-> "Lateral Pipe - 1 inch", sizeIn |-> 100,
      type |-> "lateral", maxGPM |-> Tenths(150)],
     [id |-> "lat-0.75in", name |-> "Lateral Pipe - 3/4 inch", sizeIn |-> 75,
      type |-> "lateral", maxGPM |-> Tenths(100)] >>

DRIP_KIT == [name |-> "Drip Zone Kit", manufacturer |-> "Rain Bird", model |-> "XCZ-100-PRB-COM"]

CONTROLLERS == << [id |-> "esp-lxme2", name |-> "Controller", manufacturer |-> "Rain Bird",
                   model |-> "ESP-LXME2"] >>

SENSORS == << [id |-> "rain-clik", name |-> "Rain Sensor", manufacturer |-> "Hunter",
               model |-> "Rain-Clik"],
              [id |-> "bl-sm200", name |-> "Soil Moisture Sensor", manufacturer |-> "Baseline",
               model |-> "BL-SM200"] >>

Item(item, manufacturer, model, quantity, unit) ==
  [item |-> item, manufacturer |-> manufacturer, model |-> model,
   quantity |-> quantity, unit |-> unit]

SpecItem(spec, quantity) == Item(spec.name, spec.manufacturer, spec.model, quantity, "EA")

CountByModelField(head) == head.model

(* The key under which a head is counted *)
HeadCountKey(head) == IF head.type = "quick-coupler" THEN "44RC" ELSE head.model

(* Keys of headCounts in insertion order (no catalog model is an integer  *)
(* index, so Object.entries keeps insertion order) *)
RECURSIVE HeadCountKeys(_)
HeadCountKeys(heads) ==
  IF heads = <<>> THEN <<>>
  ELSE LET front == HeadCountKeys(SubSeq(heads, 1, Len(heads) - 1))
           key == HeadCountKey(heads[Len(heads)])
       IN IF key \in Range(front) THEN front ELSE Append(front, key)

HeadItems(heads) ==
  Bind([keys \in {HeadCountKeys(heads)}, catalog \in {SPRINKLER_HEADS} |->
    LET count(model) == Cardinality({i \in DOMAIN heads : HeadCountKey(heads[i]) = model})
        known(model) == {i \in DOMAIN catalog : catalog[i].model = model}
        first(model) == catalog[CHOOSE i \in known(model) : \A j \in known(model) : i <= j]
        item(model) ==
          IF known(model) # {}
            THEN Bind([spec \in {first(model)} |->
                   Item(spec.name, spec.manufacturer, model, count(model), "EA")])
            ELSE Item(model, "", model, count(model), "EA")
    IN [k \in DOMAIN keys |-> item(keys[k])]])

PipeKey(pipe) == <<pipe.diameterIn, pipe.material>>

RECURSIVE PipeKeys(_)
PipeKeys(pipes) ==
  IF pipes = <<>> THEN <<>>
  ELSE LET front == PipeKeys(SubSeq(pipes, 1, Len(pipes) - 1))
           key == PipeKey(pipes[Len(pipes)])
       IN IF key \in Range(front) THEN front ELSE Append(front, key)

RECURSIVE PipeLength(_)
PipeLength(pipes) ==
  IF pipes = <<>> THEN 0
  ELSE LET p == pipes[Len(pipes)]
       IN PipeLength(SubSeq(pipes, 1, Len(pipes) - 1))
            + distance(p.startX, p.startY, p.endX, p.endY)

(* `${matName} - ${size}" pipe`, matName being Sch. 40 PVC when the key's  *)
(* second field is "sch40" and Class 200 PVC otherwise *)
PipeItemName(key) ==
  IF key[2] = "sch40-pvc"
    THEN CASE key[1] = 75 -> "Sch. 40 PVC - 0.75in pipe"
           [] key[1] = 100 -> "Sch. 40 PVC - 1in pipe"
           [] key[1] = 150 -> "Sch. 40 PVC - 1.5in pipe"
           [] key[1] = 200 -> "Sch. 40 PVC - 2in pipe"
    ELSE CASE key[1] = 75 -> "Class 200 PVC - 0.75in pipe"
           [] key[1] = 100 -> "Class 200 PVC - 1in pipe"
           [] key[1] = 150 -> "Class 200 PVC - 1.5in pipe"
           [] key[1] = 200 -> "Class 200 PVC - 2in pipe"

PipeItems(pipes) ==
  Bind([keys \in {PipeKeys(pipes)} |->
    LET ofKey(k) == SelectSeq(pipes, LAMBDA p : PipeKey(p) = keys[k])
    IN [k \in DOMAIN keys |->
          Item(PipeItemName(keys[k]), "", "", CeilDiv(PipeLength(ofKey(k)), 100), "LF")]])

CommonWireTimesZones(totalWireRun, totalZones) == CeilDiv(totalWireRun, 100) * totalZones

(* Math.ceil(totalWireRun * design.totalZones) *)
ZoneWireQuantity(totalWireRun, totalZones) == CeilDiv(totalWireRun * totalZones, 100)

calculateMaterials(design) ==
  Bind([zoneValveCount \in {Len(SelectSeq(design.valves, LAMBDA v : v.type = "zone"))},
        valve1in \in {Len(SelectSeq(design.valves,
                                    LAMBDA v : v.type = "zone" /\ v.size = 100))},
        valve1_5in \in {Len(SelectSeq(design.valves,
                                      LAMBDA v : v.type = "zone" /\ v.size = 150))},
        sprinklerHeadCount \in {Len(SelectSeq(design.heads,
                                   LAMBDA h : h.type # "quick-coupler" /\ h.type # "drip"))},
        totalWireRun \in {PipeLength(SelectSeq(design.pipes,
                                               LAMBDA p : p.type = "mainline"))},
        dripZones \in {SelectSeq(design.zones, LAMBDA z : z.headType = "drip")} |->
    HeadItems(design.heads)
    \o (IF valve1in > 0 THEN <<SpecItem(ValveById("peb-100"), valve1in)>> ELSE <<>>)
    \o (IF valve1_5in > 0 THEN <<SpecItem(ValveById("peb-150"), valve1_5in)>> ELSE <<>>)
    \o (IF needsMasterValve(DblOfFlow(design.totalSystemGPM))
          THEN <<SpecItem(ValveById("200-peb"), 1)>> ELSE <<>>)
    \o <<SpecItem(ValveById("009m2-qt"), 1)>>
    \o <<SpecItem(CONTROLLERS[1], 1)>>
    \o <<SpecItem(CHOOSE x \in Range(SENSORS) : x.id = "rain-clik", 1)>>
    \o PipeItems(design.pipes)
    \o <<SpecItem(SWING_JOINT, sprinklerHeadCount)>>
    \o <<SpecItem(VALVE_BOXES.jumbo, CeilDiv(zoneValveCount, 4))>>
    \o <<Item(WIRE.common.name, "", WIRE.common.spec, CeilDiv(totalWireRun, 100), "LF")>>
    \o <<Item(WIRE.zone.name, "", WIRE.zone.spec,
              ZoneWireQuantity(totalWireRun, design.totalZones), "LF")>>
    \o (IF Len(dripZones) > 0 THEN <<SpecItem(DRIP_KIT, Len(dripZones))>> ELSE <<>>)])

----------------------------------------------------------------------------
(* engine/designEngine.ts *)

(* Lines 12-29: everything after placeAllHeads up to the partial design *)
PartialDesign(siteAnalysis, rawHeads, projectInput, pc) ==
  Bind([assigned \in {AssignZonesOf(rawHeads)} |->
    Bind([zones \in {assigned.zones}, updatedHeads \in {assigned.updatedHeads} |->
      Bind([routing \in {routePipes(siteAnalysis, updatedHeads, zones, projectInput, pc)},
            totalSystemGPM \in {SumZoneGPM(zones)} |->
        [design |-> [heads |-> updatedHeads,
                     pipes |-> routing.pipes,
                     zones |-> zones,
                     valves |-> routing.valves,
                     controller |-> routing.controller,
                     backflow |-> routing.backflow,
                     poc |-> routing.poc,
                     rainSensor |-> routing.rainSensor,
                     zoneSchedule |-> zones,
                     totalSystemGPM |-> RoundHalfUp(totalSystemGPM, 4) * 4,
                     totalZones |-> Len(zones)],
         pc |-> routing.pc]])])])

generateIrrigationDesign(siteAnalysis, projectInput, hc, pc) ==
  Bind([placed \in {placeAllHeads(siteAnalysis, projectInput, hc)} |->
    Bind([partial \in {PartialDesign(siteAnalysis, placed.heads, projectInput, pc)} |->
      Bind([partialDesign \in {partial.design} |->
        [design |-> [heads |-> partialDesign.heads,
                     pipes |-> partialDesign.pipes,
                     zones |-> partialDesign.zones,
                     valves |-> partialDesign.valves,
                     controller |-> partialDesign.controller,
                     backflow |-> partialDesign.backflow,
                     poc |-> partialDesign.poc,
                     rainSensor |-> partialDesign.rainSensor,
                     zoneSchedule |-> partialDesign.zoneSchedule,
                     totalSystemGPM |-> partialDesign.totalSystemGPM,
                     totalZones |-> partialDesign.totalZones,
                     materialSchedule |-> calculateMaterials(partialDesign)],
         hc |-> placed.hc,
         pc |-> partial.pc]])])])

----------------------------------------------------------------------------
(* Inputs *)

Pt(xFt, yFt) == [x |-> Ft(xFt), y |-> Ft(yFt)]

IrrigableZone(type, w, l, area, cx, cy, boundary) ==
  [type |-> type, widthFt |-> Ft(w), lengthFt |-> Ft(l), areaFt2 |-> area,
   centerX |-> Ft(cx), centerY |-> Ft(cy), boundaryPoints |-> boundary]

SquareTurf ==
  IrrigableZone("turf", 40, 40, 1600, 20, 20, <<Pt(0, 0), Pt(40, 0), Pt(40, 40), Pt(0, 40)>>)

LargeBed == IrrigableZone("bed", 30, 30, 900, 30, 30, <<>>)

Strip == IrrigableZone("narrow-strip", 6, 30, 180, 90, 25, <<>>)

AthleticFieldZone == IrrigableZone("turf", 300, 150, 45000, 150, 75, <<>>)

(* Degenerate zones: no extent at all, and a boundary of a single point *)
NoExtentTurf == IrrigableZone("turf", 0, 0, 0, 20, 20, <<>>)

OnePointTurf == IrrigableZone("turf", 10, 10, 0, 50, 20, <<Pt(50, 20)>>)

(* A zone given by two boundary points, away from its center rectangle *)
TwoPointTurf == IrrigableZone("turf", 30, 30, 900, 40, 25, <<Pt(60, 10), Pt(84, 34)>>)

(* A strip less than 2 ft wide: every head is within 2 ft of both long edges *)
ThinStrip == IrrigableZone("narrow-strip", 1, 20, 20, 80, 20, <<>>)

(* A rectangle by its four corners, its sides two head spacings long: the *)
(* candidate grid has points on every edge                                 *)
EdgeTurf ==
  IrrigableZone("turf", 50, 50, 2500, 65, 25, <<Pt(40, 0), Pt(90, 0), Pt(90, 50), Pt(40, 50)>>)

ZoneShapes ==
  { SquareTurf, LargeBed, Strip, AthleticFieldZone,
    NoExtentTurf, OnePointTurf, TwoPointTurf, ThinStrip, EdgeTurf,
    IrrigableZone("turf", 20, 12, 240, 60, 20, <<>>),
    IrrigableZone("turf", 60, 45, 2700, 50, 30, <<>>),
    IrrigableZone("turf", 40, 40, 800, 60, 20, <<Pt(40, 0), Pt(80, 0), Pt(40, 40)>>),
    IrrigableZone("bed", 15, 10, 150, 70, 10, <<>>),
    IrrigableZone("planter", 6, 4, 24, 10, 45, <<>>) }

ZoneLists(shapes, maxLen) == UNION {[1..n -> shapes] : n \in 0..maxLen}

SiteAnalysis(w, l, zones, source, controller) ==
  LET isTurf(z) == z.type = "turf"
      isBed(z) == z.type \in {"bed", "planter", "tree-ring"}
      isStrip(z) == z.type = "narrow-strip"
  IN [propertyWidthFt |-> Ft(w), propertyLengthFt |-> Ft(l),
      turfZones |-> SelectSeq(zones, isTurf),
      bedZones |-> SelectSeq(zones, isBed),
      narrowStrips |-> SelectSeq(zones, isStrip),
      waterSourceLocation |-> source,
      controllerLocation |-> controller,
      nearestBuildingLocation |-> Pt(50, 0)]

(* Site analyses given to placeAllHeads *)
Sites ==
  {SiteAnalysis(d[1], d[2], zs, Null, Null) :
     d \in {<<300, 150>>, <<100, 50>>}, zs \in ZoneLists(ZoneShapes, MaxZones)}

(* Site analyses given to the whole pipeline.  LongTurf and LongBed make   *)
(* three zones that draw 7.4, 14.3 and 8.3 GPM.                            *)
LongTurf == IrrigableZone("turf", 150, 20, 3000, 80, 20, <<>>)

LongBed == IrrigableZone("bed", 73, 30, 2190, 60, 60, <<>>)

(* Two turf zones and a strip whose four zones draw 14.7, 12.6, 8.4 and    *)
(* 4.3 GPM                                                                 *)
TallTurf == IrrigableZone("turf", 30, 147, 4410, 20, 80, <<>>)

WideTurf == IrrigableZone("turf", 184, 57, 10488, 140, 40, <<>>)

SideStrip == IrrigableZone("narrow-strip", 3, 71, 213, 240, 40, <<>>)

(* A small and a mid-sized turf zone, a mid-sized bed and a planter: with  *)
(* the zones above, one zone for every head selectHeadForZone can return   *)
SmallZones ==
  << IrrigableZone("turf", 20, 12, 240, 60, 20, <<>>),
     IrrigableZone("turf", 60, 45, 2700, 50, 30, <<>>),
     IrrigableZone("bed", 15, 10, 150, 70, 10, <<>>),
     IrrigableZone("planter", 6, 4, 24, 10, 45, <<>>) >>

PipelineSites ==
  {SiteAnalysis(100, 50, zs, Null, Null) : zs \in ZoneLists({SquareTurf, Strip}, MaxPipelineZones)}
    \cup { SiteAnalysis(100, 50, <<LargeBed>>, Null, Null),
           SiteAnalysis(160, 80, <<LongTurf, LongBed>>, Null, Null),
           SiteAnalysis(250, 160, <<TallTurf, WideTurf, SideStrip>>, Null, Null),
           SiteAnalysis(100, 50, <<SquareTurf, Strip>>, Pt(10, 30), Pt(45, 8)),
           SiteAnalysis(100, 50, SmallZones, Null, Null),
           SiteAnalysis(300, 150, <<IrrigableZone("turf", 120, 80, 9600, 150, 75, <<>>)>>,
                        Null, Null) }

ApplicationTypes == {"commercial", "multifamily", "athletic-field", "hoa-common-area"}

PipelineApplicationTypes == {"commercial", "athletic-field"}

ProjectInput(applicationType) == [applicationType |-> applicationType]

NoCall == [known |-> FALSE, between |-> FALSE,
           siteAnalysis |-> SiteAnalysis(0, 0, <<>>, Null, Null),
           projectInput |-> ProjectInput(""), design |-> <<>>]

----------------------------------------------------------------------------
(* The engine as a module with two counters, called any number of times.   *)
(* `earlier` remembers one earlier generateIrrigationDesign call (its      *)
(* input and the design it returned) and whether a call with another input *)
(* has been made since.                                                    *)

Init ==
  /\ headCounter = 0
  /\ pipeCounter = 0
  /\ op = "none"
  /\ arg = <<>>
  /\ ret = <<>>
  /\ earlier = NoCall

Remember(siteAnalysis, projectInput, design) ==
  \/ earlier' = [known |-> TRUE, between |-> FALSE, siteAnalysis |-> siteAnalysis,
                 projectInput |-> projectInput, design |-> design]
  \/ /\ earlier.known
     /\ earlier' = [earlier EXCEPT !.between =
                      @ \/ earlier.siteAnalysis # siteAnalysis
                        \/ earlier.projectInput # projectInput]
  \/ /\ ~earlier.known
     /\ earlier' = earlier

GenerateDesign(siteAnalysis, projectInput) ==
  \E r \in {generateIrrigationDesign(siteAnalysis, projectInput, headCounter, pipeCounter)} :
     /\ headCounter' = r.hc
     /\ pipeCounter' = r.pc
     /\ op' = "generateIrrigationDesign"
     /\ arg' = [siteAnalysis |-> siteAnalysis, projectInput |-> projectInput]
     /\ ret' = r.design
     /\ Remember(siteAnalysis, projectInput, r.design)

Next ==
  \E siteAnalysis \in PipelineSites, applicationType \in PipelineApplicationTypes :
    GenerateDesign(siteAnalysis, ProjectInput(applicationType))

Spec == Init /\ [][Next]_vars

----------------------------------------------------------------------------
(* placeAllHeads called on its own, the counter holding whatever an         *)
(* earlier call left in it                                                  *)

InitHeads ==
  /\ headCounter \in 0..MaxLeftover
  /\ pipeCounter = 0
  /\ op = "none"
  /\ arg \in {[siteAnalysis |-> sa, projectInput |-> ProjectInput(a)] :
                sa \in Sites, a \in ApplicationTypes}
  /\ ret = <<>>
  /\ earlier = NoCall

CallPlaceAllHeads ==
  /\ op = "none"
  /\ \E r \in {placeAllHeads(arg.siteAnalysis, arg.projectInput, headCounter)} :
        /\ headCounter' = r.hc
        /\ ret' = r.heads
  /\ op' = "placeAllHeads"
  /\ UNCHANGED <<pipeCounter, arg, earlier>>

SpecHeads == InitHeads /\ [][CallPlaceAllHeads]_vars

----------------------------------------------------------------------------
(* assignZones called on its own, on any list of heads with distinct ids   *)

HeadKind(type, model, gpm, radius) ==
  [type |-> type, model |-> model, gpm |-> gpm, radiusFt |-> Ft(radius)]

HeadKinds ==
  { HeadKind("rotor", "I-40-04-SS", Tenths(42), 42),
    HeadKind("rotor", "CUSTOM-90", Tenths(90), 50),
    HeadKind("rotor", "CUSTOM-160", Tenths(160), 60),
    HeadKind("spray", "1804-SAM-PRS", Tenths(15), 12),
    HeadKind("spray", "CUSTOM-80", Tenths(80), 15),
    HeadKind("drip", "Techline TLCV-09-12-500", 225, 0),
    HeadKind("quick-coupler", "44RC", 0, 0),
    HeadKind("quick-coupler", "QC-OTHER", 0, 0) }

(* The i-th head of a list of n, numbered upwards or downwards *)
HeadOf(kind, i, n, order) ==
  [id |-> MkId("H", IF order = "up" THEN i ELSE n + 1 - i),
   x |-> Ft(10 * i), y |-> Ft(5 * (i % 2)),
   type |-> kind.type, model |-> kind.model, manufacturer |-> "",
   arc |-> 360, radiusFt |-> kind.radiusFt, gpm |-> kind.gpm,
   psi |-> 30, nozzle |-> "", zoneId |-> NoId]

HeadLists ==
  {[i \in DOMAIN ks |-> HeadOf(ks[i], i, Len(ks), order)] :
     ks \in ZoneLists(HeadKinds, MaxHeads), order \in {"up", "down"}}

(* Heads with the flow adjustGPMForArc gives a quarter circle: 2.2 / 4 =   *)
(* 0.55 GPM and 1.5 / 4 = 0.375 GPM                                        *)
PartialArcKinds ==
  { HeadKind("rotor", "PGP-ADJ", 22, 25),
    HeadKind("spray", "1804-SAM-PRS", 15, 12) }

ZoneHeadLists ==
  {[i \in DOMAIN ks |-> HeadOf(ks[i], i, Len(ks), order)] :
     ks \in ZoneLists(HeadKinds \cup PartialArcKinds, MaxHeads), order \in {"up", "down"}}

InitZones ==
  /\ headCounter = 0
  /\ pipeCounter = 0
  /\ op = "none"
  /\ arg \in ZoneHeadLists
  /\ ret = <<>>
  /\ earlier = NoCall

CallAssignZones ==
  /\ op = "none"
  /\ ret' = AssignZonesOf(arg)
  /\ op' = "assignZones"
  /\ UNCHANGED <<headCounter, pipeCounter, arg, earlier>>

SpecZones == InitZones /\ [][CallAssignZones]_vars

----------------------------------------------------------------------------
(* calculateMaterials called on its own, on the partial design of any head *)
(* list                                                                    *)

InitMaterials ==
  /\ headCounter = 0
  /\ pipeCounter \in 0..MaxLeftover
  /\ op = "none"
  /\ arg \in {PartialDesign(SiteAnalysis(100, 50, <<>>, Null, Null), hs,
                            ProjectInput("commercial"), 0).design : hs \in HeadLists}
  /\ ret = <<>>
  /\ earlier = NoCall

CallCalculateMaterials ==
  /\ op = "none"
  /\ ret' = calculateMaterials(arg)
  /\ op' = "calculateMaterials"
  /\ UNCHANGED <<headCounter, pipeCounter, arg, earlier>>

SpecMaterials == InitMaterials /\ [][CallCalculateMaterials]_vars

----------------------------------------------------------------------------
(* routePipes called on its own, on the zones and heads assignZones made   *)
(* of a head list, the heads of one zone possibly missing from the list    *)

RouteHeadKinds ==
  { HeadKind("rotor", "I-40-04-SS", Tenths(42), 42),
    HeadKind("rotor", "CUSTOM-160", Tenths(160), 60),
    HeadKind("spray", "1804-SAM-PRS", Tenths(15), 12),
    HeadKind("drip", "Techline TLCV-09-12-500", 225, 0),
    HeadKind("quick-coupler", "44RC", 0, 0) }

(* Where the heads lie: 10 ft apart as HeadOf puts them, or 2 ft apart     *)
(* around (12, 10), closer to each other than to any valve                 *)
Layouts == {"spread", "close"}

Laid(head, i, layout) ==
  IF layout = "spread" THEN head
  ELSE [head EXCEPT !.x = Ft(10 + 2 * (i % 3)), !.y = Ft(10 + 2 * (i \div 4))]

RouteHeadLists ==
  {[i \in DOMAIN ks |-> Laid(HeadOf(ks[i], i, Len(ks), "up"), i, layout)] :
     ks \in ZoneLists(RouteHeadKinds, MaxHeads), layout \in Layouts}

(* The head list without the heads of the k-th zone (all of it for k = 0) *)
WithoutZone(heads, zones, k) ==
  IF k = 0 THEN heads ELSE SelectSeq(heads, LAMBDA h : h.zoneId # zones[k].id)

RouteInputs ==
  UNION {{[siteAnalysis |-> sa, heads |-> WithoutZone(a.updatedHeads, a.zones, k),
           zones |-> a.zones] :
            k \in 0..Len(a.zones),
            sa \in {SiteAnalysis(100, 50, <<>>, Null, Null),
                    SiteAnalysis(100, 50, <<>>, Pt(10, 30), Pt(45, 8))}} :
         a \in {AssignZonesOf(hs) : hs \in RouteHeadLists}}

InitRoute ==
  /\ headCounter = 0
  /\ pipeCounter \in 0..MaxLeftover
  /\ op = "none"
  /\ arg \in RouteInputs
  /\ ret = <<>>
  /\ earlier = NoCall

CallRoutePipes ==
  /\ op = "none"
  /\ \E r \in {routePipes(arg.siteAnalysis, arg.heads, arg.zones,
                           ProjectInput("commercial"), pipeCounter)} :
        /\ pipeCounter' = r.pc
        /\ ret' = r
  /\ op' = "routePipes"
  /\ UNCHANGED <<headCounter, arg, earlier>>

SpecRoute == InitRoute /\ [][CallRoutePipes]_vars

----------------------------------------------------------------------------
(* generateGridPoints called on its own *)

GridInputs ==
  [originX : {Ft(0), Ft(3)}, originY : {Ft(0), Ft(7)},
   width : {Ft(0), Ft(5), Ft(10), Ft(12)}, height : {Ft(0), Ft(7), Ft(10)},
   spacingX : {Ft(4), Ft(5)}, spacingY : {Ft(3), Ft(5)},
   pattern : {"square", "triangular"}]

InitGrid ==
  /\ headCounter = 0
  /\ pipeCounter = 0
  /\ op = "none"
  /\ arg \in GridInputs
  /\ ret = <<>>
  /\ earlier = NoCall

CallGenerateGridPoints ==
  /\ op = "none"
  /\ ret' = generateGridPoints(arg.originX, arg.originY, arg.width, arg.height,
                               arg.spacingX, arg.spacingY, arg.pattern)
  /\ op' = "generateGridPoints"
  /\ UNCHANGED <<headCounter, pipeCounter, arg, earlier>>

SpecGrid == InitGrid /\ [][CallGenerateGridPoints]_vars

----------------------------------------------------------------------------
(* Two placeAllHeads invocations that share the module's headCounter and   *)
(* whose steps interleave.  The atomic steps of an invocation are the      *)
(* reset `headCounter = 0` and each nextHeadId call with the push of its   *)
(* head.  op[i] is the position of invocation i, arg[i] its input, ret[i]  *)
(* the heads it has pushed; op[i].overlapped records that the other        *)
(* invocation was running at some moment of this one.                      *)

Invocations == {1, 2}

ConcurrentInputs ==
  {[siteAnalysis |-> SiteAnalysis(100, 50, zs, Null, Null), projectInput |-> ProjectInput(a)] :
     zs \in {<<OnePointTurf>>, <<Strip>>}, a \in PipelineApplicationTypes}

(* The heads an invocation pushes, in the order it pushes them; the ids    *)
(* are given at the push *)
HeadsToPush(input) == placeAllHeads(input.siteAnalysis, input.projectInput, 0).heads

InitConcurrent ==
  /\ headCounter = 0
  /\ pipeCounter = 0
  /\ op = [i \in Invocations |-> [at |-> "idle", next |-> 1, overlapped |-> FALSE]]
  /\ arg \in [Invocations -> ConcurrentInputs]
  /\ ret = [i \in Invocations |-> <<>>]
  /\ earlier = NoCall

(* headCounter = 0 *)
StartPlacing(i) ==
  /\ op[i].at = "idle"
  /\ headCounter' = ResetHeadCounter(headCounter)
  /\ op' = [j \in Invocations |->
              IF j = i THEN [at |-> "placing", next |-> 1,
                             overlapped |-> \E k \in Invocations \ {i} : op[k].at = "placing"]
              ELSE [op[j] EXCEPT !.overlapped = @ \/ op[j].at = "placing"]]
  /\ UNCHANGED <<pipeCounter, arg, ret, earlier>>

(* heads.push({ id: nextHeadId(), ... }) *)
PushHead(i) ==
  /\ op[i].at = "placing"
  /\ op[i].next <= Len(HeadsToPush(arg[i]))
  /\ headCounter' = headCounter + 1
  /\ ret' = [ret EXCEPT ![i] = Append(@, [HeadsToPush(arg[i])[op[i].next]
                                            EXCEPT !.id = nextHeadId(headCounter)])]
  /\ op' = [op EXCEPT ![i].next = @ + 1]
  /\ UNCHANGED <<pipeCounter, arg, earlier>>

(* return allHeads *)
ReturnHeads(i) ==
  /\ op[i].at = "placing"
  /\ op[i].next > Len(HeadsToPush(arg[i]))
  /\ op' = [op EXCEPT ![i].at = "done"]
  /\ UNCHANGED <<headCounter, pipeCounter, arg, ret, earlier>>

NextConcurrent == \E i \in Invocations : StartPlacing(i) \/ PushHead(i) \/ ReturnHeads(i)

SpecConcurrent == InitConcurrent /\ [][NextConcurrent]_vars

----------------------------------------------------------------------------
(* Properties *)

Generated == op = "generateIrrigationDesign"

Placed == op = "placeAllHeads"

Assigned == op = "assignZones"

Counted == op = "calculateMaterials"

SameInputAsEarlier ==
  /\ earlier.known
  /\ earlier.siteAnalysis = arg.siteAnalysis
  /\ earlier.projectInput = arg.projectInput

(* C1: a generateIrrigationDesign call returns the design that an earlier  *)
(* call with the same (siteAnalysis, projectInput) returned, whatever was  *)
(* processed by the calls in between.                                      *)
C1_SameInputSameDesign ==
  (Generated /\ SameInputAsEarlier) => ret = earlier.design

C1_Witness ==
  /\ Generated
  /\ SameInputAsEarlier
  /\ earlier.between
  /\ Len(ret.heads) > 0
  /\ Len(ret.pipes) > 0

(* The heads of a list whose ids are members of a zone *)
MembersOf(zone, heads) ==
  LET member(h) == h.id \in Range(zone.heads) IN SelectSeq(heads, member)

(* C2: every zone returned by assignZones is homogeneous: its member heads *)
(* all have the head kind zone.headType.                                   *)
C2_ZoneHomogeneous ==
  Assigned =>
    \A k \in DOMAIN ret.zones :
      \A i \in DOMAIN arg :
        arg[i].id \in Range(ret.zones[k].heads) => arg[i].type = ret.zones[k].headType

C2_Witness ==
  /\ Assigned
  /\ \E j, k \in DOMAIN ret.zones : ret.zones[j].headType # ret.zones[k].headType
  /\ \E k \in DOMAIN ret.zones : Len(ret.zones[k].heads) >= 2

MaxLateralGPM(headType) == getMaxGPMForLateral(getLateralSizeIn(headType))

(* C3: the exact GPM sum of a zone's member heads exceeds the maximum      *)
(* lateral GPM of the zone's kind only if the zone is a single head whose  *)
(* own GPM exceeds it; a zone of two or more heads stays within it.        *)
C3_ZoneCapacity ==
  Assigned =>
    \A k \in DOMAIN ret.zones :
      LET members == MembersOf(ret.zones[k], arg)
          limit == MaxLateralGPM(ret.zones[k].headType)
      IN /\ SumGPM(members) > limit => (Len(members) = 1 /\ members[1].gpm > limit)
         /\ Len(members) >= 2 => SumGPM(members) <= limit

C3_Witness ==
  /\ Assigned
  /\ \E k \in DOMAIN ret.zones :
       SumGPM(MembersOf(ret.zones[k], arg)) > MaxLateralGPM(ret.zones[k].headType)
  /\ \E j, k \in DOMAIN ret.zones :
       /\ j < k
       /\ ret.zones[j].headType = ret.zones[k].headType
       /\ Len(ret.zones[j].heads) >= 2

Occurrences(id) ==
  Cardinality(UNION {{<<k, m>> : m \in {n \in DOMAIN ret.zones[k].heads :
                                          ret.zones[k].heads[n] = id}} :
                     k \in DOMAIN ret.zones})

(* C4: assignZones partitions the non-quick-coupler heads: each one's id   *)
(* is in the member list of exactly one zone and its entry in updatedHeads *)
(* carries that zone's id; a quick coupler is in no zone and keeps an      *)
(* empty zoneId; updatedHeads has the input's heads in the input's order.  *)
C4_ZonesPartitionHeads ==
  Assigned =>
    /\ Len(ret.updatedHeads) = Len(arg)
    /\ \A i \in DOMAIN arg :
         /\ ret.updatedHeads[i].id = arg[i].id
         /\ IF arg[i].type = "quick-coupler"
              THEN /\ Occurrences(arg[i].id) = 0
                   /\ ret.updatedHeads[i].zoneId = NoId
              ELSE /\ Occurrences(arg[i].id) = 1
                   /\ \E k \in DOMAIN ret.zones :
                        /\ arg[i].id \in Range(ret.zones[k].heads)
                        /\ ret.updatedHeads[i].zoneId = ret.zones[k].id

C4_Witness ==
  /\ Assigned
  /\ Len(ret.zones) >= 2
  /\ \E i, j \in DOMAIN arg :
       /\ arg[i].type = "quick-coupler"
       /\ arg[j].type # "quick-coupler"
       /\ arg[j].id # MkId("H", j)

CatalogGPM(model) ==
  (CHOOSE h \in Range(SPRINKLER_HEADS) : h.model = model).gpmAtDefaultRadius

(* C5: every head returned by placeAllHeads has gpm = full-circle GPM of   *)
(* its catalog model x arc / 360, with arc one of 0, 90, 180, 360.         *)
C5_ArcGPMConsistent ==
  Placed =>
    \A i \in DOMAIN ret :
      /\ ret[i].arc \in {0, 90, 180, 360}
      /\ ret[i].gpm * 360 = CatalogGPM(ret[i].model) * ret[i].arc

C5_Witness ==
  /\ Placed
  /\ \A a \in {0, 90, 180, 360} : \E i \in DOMAIN ret : ret[i].arc = a /\ (a > 0 => ret[i].gpm > 0)

(* C6: in the design of every generateIrrigationDesign call, head ids are  *)
(* H-1..H-n in list order, zone ids Z-1..Z-k in list order with number     *)
(* equal to the suffix, and pipe ids P-1..P-m in list order.               *)
C6_IdsNumberedFromOne ==
  Generated =>
    /\ \A i \in DOMAIN ret.heads : ret.heads[i].id = MkId("H", i)
    /\ \A i \in DOMAIN ret.zones : ret.zones[i].id = MkId("Z", i) /\ ret.zones[i].number = i
    /\ \A i \in DOMAIN ret.pipes : ret.pipes[i].id = MkId("P", i)

C6_Witness ==
  /\ Generated
  /\ earlier.known
  /\ earlier.between
  /\ Len(earlier.design.pipes) > 0
  /\ Len(ret.heads) >= 2
  /\ Len(ret.zones) >= 2
  /\ Len(ret.pipes) >= 2

IsAthletic == arg.projectInput.applicationType = "athletic-field"

CouplerAt(h, x, y) ==
  h.type = "quick-coupler" /\ h.x = x /\ h.y = y /\ h.gpm = 0

(* C7: for athletic-field, placeAllHeads returns exactly three quick       *)
(* couplers, the last three heads, at (W/2, L/2), (W/2, L/4), (W/2, 3L/4), *)
(* each with gpm 0; for any other application type it returns none.        *)
C7_QuickCouplers ==
  Placed =>
    LET n == Len(ret)
        w == arg.siteAnalysis.propertyWidthFt
        l == arg.siteAnalysis.propertyLengthFt
        couplers == {i \in DOMAIN ret : ret[i].type = "quick-coupler"}
    IN IF IsAthletic
         THEN /\ n >= 3
              /\ couplers = {n - 2, n - 1, n}
              /\ CouplerAt(ret[n - 2], w \div 2, l \div 2)
              /\ CouplerAt(ret[n - 1], w \div 2, l \div 4)
              /\ CouplerAt(ret[n], w \div 2, (3 * l) \div 4)
         ELSE couplers = {}

C7_Witness ==
  /\ Placed
  /\ IsAthletic
  /\ arg.siteAnalysis.propertyWidthFt = Ft(300)
  /\ arg.siteAnalysis.propertyLengthFt = Ft(150)
  /\ arg.siteAnalysis.turfZones = <<AthleticFieldZone>>
  /\ Len(ret) > 3
  /\ ret[Len(ret) - 1].y # ret[Len(ret)].y

OneLargeBed ==
  /\ arg.siteAnalysis.turfZones = <<>>
  /\ arg.siteAnalysis.narrowStrips = <<>>
  /\ Len(arg.siteAnalysis.bedZones) = 1
  /\ arg.siteAnalysis.bedZones[1].type = "bed"
  /\ Max(arg.siteAnalysis.bedZones[1].widthFt, arg.siteAnalysis.bedZones[1].lengthFt) > Ft(21)
  /\ ~IsAthletic

(* C8: a bed zone whose dominant dimension exceeds 21 ft takes the drip    *)
(* path: it yields exactly one head, of kind drip, at the zone's center,   *)
(* with radiusFt = 0 and arc = 0.                                          *)
C8_LargeBedIsDrip ==
  (Placed /\ OneLargeBed) =>
    /\ Len(ret) = 1
    /\ ret[1].type = "drip"
    /\ ret[1].x = arg.siteAnalysis.bedZones[1].centerX
    /\ ret[1].y = arg.siteAnalysis.bedZones[1].centerY
    /\ ret[1].radiusFt = 0
    /\ ret[1].arc = 0

ZoneIdOf(id) == ret.zones[CHOOSE k \in DOMAIN ret.zones : id \in Range(ret.zones[k].heads)].id

HeadLineItems ==
  LET fixed == {"PEB-100", "PEB-150", "200-PEB", "009M2-QT"}
      firstFixed == CHOOSE k \in DOMAIN ret :
                      ret[k].model \in fixed /\ \A j \in 1..(k - 1) : ret[j].model \notin fixed
  IN SubSeq(ret, 1, firstFixed - 1)

ModelCountedAs(h) == IF h.type = "quick-coupler" THEN "44RC" ELSE h.model

RECURSIVE SumQuantity(_)
SumQuantity(items) ==
  IF items = <<>> THEN 0 ELSE Head(items).quantity + SumQuantity(Tail(items))

(* C10: calculateMaterials emits exactly one head line item per distinct   *)
(* head model, its quantity the number of heads of that model, every quick *)
(* coupler counting as model 44RC whatever its model field; the quantities *)
(* add up to the number of heads.                                          *)
C10_HeadLineItems ==
  Counted =>
    LET items == HeadLineItems
        models == {ModelCountedAs(arg.heads[i]) : i \in DOMAIN arg.heads}
    IN /\ \A k \in DOMAIN items : items[k].model \in models /\ items[k].unit = "EA"
       /\ \A m \in models :
            /\ Cardinality({k \in DOMAIN items : items[k].model = m}) = 1
            /\ \A k \in DOMAIN items :
                 items[k].model = m =>
                   items[k].quantity =
                     Cardinality({i \in DOMAIN arg.heads : ModelCountedAs(arg.heads[i]) = m})
       /\ SumQuantity(items) = Len(arg.heads)

C10_Witness ==
  /\ Counted
  /\ \E i, j \in DOMAIN arg.heads :
       /\ arg.heads[i].type = "quick-coupler" /\ arg.heads[i].model = "QC-OTHER"
       /\ arg.heads[j].type = "quick-coupler" /\ arg.heads[j].model = "44RC"
  /\ Len(HeadLineItems) >= 2

Routed == op = "routePipes"

(* The heads of the passed list that carry a zone's id *)
HeadsOfZone(zone) == SelectSeq(arg.heads, LAMBDA h : h.zoneId = zone.id)

ServedZones == {k \in DOMAIN arg.zones : Len(HeadsOfZone(arg.zones[k])) > 0}

PipesWhere(Test(_)) == {p \in DOMAIN ret.pipes : Test(ret.pipes[p])}

ValvesWhere(Test(_)) == {v \in DOMAIN ret.valves : Test(ret.valves[v])}

(* The heads of the passed list that carry the id of one of the zones *)
ZonedHeads ==
  SelectSeq(arg.heads, LAMBDA h : h.zoneId \in {arg.zones[k].id : k \in DOMAIN arg.zones})

(* The fraction q is 3 ft less than sum / n *)
ThreeFtBelowMean(q, sum, n) == q.n * n = (sum - Ft(3) * n) * q.d

(* C11: for every zone with at least one head, routePipes emits exactly    *)
(* one zone valve, tagged with the zone's id, at (cx - 3, cy - 3) for the  *)
(* centroid (cx, cy) of the zone's heads, a mainline segment ending at     *)
(* that valve, and per head of the zone exactly one lateral (drip-supply   *)
(* in a drip zone) tagged with the zone's id and ending at the head; the   *)
(* mainlines are one per such zone plus one per master valve, and there    *)
(* is no other pipe.                                                       *)
C11_ZoneValveAndPipes ==
  Routed =>
    /\ \A k \in ServedZones :
         LET zone == arg.zones[k]
             zh == HeadsOfZone(zone)
             own == ValvesWhere(LAMBDA v : v.type = "zone" /\ v.zoneId = zone.id)
         IN /\ Cardinality(own) = 1
            /\ \A v \in own :
                 /\ ThreeFtBelowMean(ret.valves[v].x, SumX(zh), Len(zh))
                 /\ ThreeFtBelowMean(ret.valves[v].y, SumY(zh), Len(zh))
                 /\ PipesWhere(LAMBDA p : /\ p.type = "mainline"
                                          /\ p.endX = ret.valves[v].x
                                          /\ p.endY = ret.valves[v].y) # {}
            /\ \A i \in DOMAIN zh :
                 Cardinality(PipesWhere(LAMBDA p :
                   /\ p.type = IF zone.headType = "drip" THEN "drip-supply" ELSE "lateral"
                   /\ p.zoneId = zone.id
                   /\ p.endX = Whole(zh[i].x)
                   /\ p.endY = Whole(zh[i].y))) = 1
            /\ Cardinality(PipesWhere(LAMBDA p : p.zoneId = zone.id)) = Len(zh)
    /\ Cardinality(PipesWhere(LAMBDA p : p.type = "mainline"))
         = Cardinality(ServedZones) + Cardinality(ValvesWhere(LAMBDA v : v.type = "master"))
    /\ Len(ret.pipes)
         = Cardinality(PipesWhere(LAMBDA p : p.type = "mainline"))
           + Len(ZonedHeads)

C11_Witness ==
  /\ Routed
  /\ Cardinality(ServedZones) >= 2
  /\ \E k \in ServedZones : Len(HeadsOfZone(arg.zones[k])) >= 2
  /\ \E k \in ServedZones : arg.zones[k].headType = "drip"
  /\ Len(ret.pipes) >= 5

(* C13: a zone none of whose heads is in the passed head list gets no      *)
(* zone valve and no pipe segment; every zone that has heads still gets    *)
(* its valve and its pipes.                                                *)
C13_EmptyZoneSkipped ==
  Routed =>
    /\ \A k \in DOMAIN arg.zones \ ServedZones :
         /\ ValvesWhere(LAMBDA v : v.zoneId = arg.zones[k].id) = {}
         /\ PipesWhere(LAMBDA p : p.zoneId = arg.zones[k].id) = {}
    /\ \A k \in ServedZones :
         /\ ValvesWhere(LAMBDA v : v.zoneId = arg.zones[k].id) # {}
         /\ PipesWhere(LAMBDA p : p.zoneId = arg.zones[k].id) # {}
    /\ Cardinality(ValvesWhere(LAMBDA v : v.type = "zone")) = Cardinality(ServedZones)
    /\ Cardinality(PipesWhere(LAMBDA p : p.type = "mainline"))
         = Cardinality(ServedZones) + Cardinality(ValvesWhere(LAMBDA v : v.type = "master"))

C13_Witness ==
  /\ Routed
  /\ \E j, k \in DOMAIN arg.zones :
       /\ j < k
       /\ j \notin ServedZones
       /\ k \in ServedZones
  /\ \E j, k \in DOMAIN arg.zones :
       /\ j < k
       /\ j \in ServedZones
       /\ k \notin ServedZones

Gridded == op = "generateGridPoints"

(* The smallest n with n * b >= a *)
CeilOf(a, b) == CHOOSE n \in 0..a : n * b >= a /\ \A m \in 0..(n - 1) : m * b < a

(* The points the grid is specified to hold *)
ExpectedGridPoints ==
  LET rows == CeilOf(arg.height, arg.spacingY) + 1
      cols == CeilOf(arg.width, arg.spacingX) + 1
      off(r) == IF arg.pattern = "triangular" /\ r % 2 = 1 THEN arg.spacingX \div 2 ELSE 0
      all == {[x |-> arg.originX + c * arg.spacingX + off(r), y |-> arg.originY + r * arg.spacingY] :
                r \in 0..(rows - 1), c \in 0..(cols - 1)}
  IN {p \in all : p.x <= arg.originX + arg.width /\ p.y <= arg.originY + arg.height}

(* C12: generateGridPoints returns exactly the points                      *)
(* (ox + c*sx + off(r), oy + r*sy), r < ceil(h/sy)+1, c < ceil(w/sx)+1,    *)
(* that lie within ox + w and oy + h, each once, in row-major order; a     *)
(* square grid whose extents are multiples of the spacing has              *)
(* (w/sx + 1) x (h/sy + 1) points, 9 for (0, 0, 10, 10, 5, 5).             *)
C12_GridPoints ==
  Gridded =>
    /\ Range(ret) = ExpectedGridPoints
    /\ \A i, j \in DOMAIN ret :
         i < j => \/ ret[i].y < ret[j].y
                  \/ ret[i].y = ret[j].y /\ ret[i].x < ret[j].x
    /\ (/\ arg.pattern = "square"
        /\ arg.width % arg.spacingX = 0
        /\ arg.height % arg.spacingY = 0)
         => Len(ret) = (arg.width \div arg.spacingX + 1) * (arg.height \div arg.spacingY + 1)
    /\ arg = [originX |-> Ft(0), originY |-> Ft(0), width |-> Ft(10), height |-> Ft(10),
              spacingX |-> Ft(5), spacingY |-> Ft(5), pattern |-> "square"]
         => Len(ret) = 9

C12_Witness ==
  /\ Gridded
  /\ arg.pattern = "triangular"
  /\ arg.width % arg.spacingX # 0
  /\ Len(ret) >= 6
  /\ \E i \in DOMAIN ret : ret[i].x = arg.originX + arg.spacingX \div 2
  /\ Len(ret) < (CeilOf(arg.height, arg.spacingY) + 1) * (CeilOf(arg.width, arg.spacingX) + 1)

OnlyZone(zone) ==
  /\ arg.siteAnalysis.turfZones \o arg.siteAnalysis.bedZones \o arg.siteAnalysis.narrowStrips
       = <<zone>>
  /\ ~IsAthletic

(* C14: for a site whose only zone is degenerate (no extent and no         *)
(* boundary points, or a boundary of a single point) placeAllHeads         *)
(* returns no head.                                                        *)
C14_DegenerateZoneNoHeads ==
  (Placed /\ (OnlyZone(NoExtentTurf) \/ OnlyZone(OnePointTurf))) => Len(ret) = 0

Concurrent == DOMAIN op = Invocations

NumberedFromOne(heads) == \A k \in DOMAIN heads : heads[k].id = MkId("H", k)

HasDuplicateIds(heads) == \E j, k \in DOMAIN heads : j # k /\ heads[j].id = heads[k].id

(* C15: the head counter is shared by the invocations: an invocation that  *)
(* ran without the other one running at any moment of it returns its heads *)
(* numbered H-1..H-n, without duplicates; an invocation whose steps        *)
(* interleaved with the other's can return duplicate ids or another        *)
(* numbering (C15_Witness is such a return).                               *)
C15_SequentialIdsOnly ==
  Concurrent =>
    \A i \in Invocations :
      (op[i].at = "done" /\ ~op[i].overlapped) =>
        /\ NumberedFromOne(ret[i])
        /\ ~HasDuplicateIds(ret[i])
        /\ Len(ret[i]) = Len(HeadsToPush(arg[i]))

C15_Witness ==
  /\ Concurrent
  /\ \E i \in Invocations :
       /\ op[i].at = "done"
       /\ op[i].overlapped
       /\ HasDuplicateIds(ret[i])
  /\ \E i \in Invocations :
       /\ op[i].at = "done"
       /\ op[i].overlapped
       /\ ~HasDuplicateIds(ret[i])
       /\ ~NumberedFromOne(ret[i])

----------------------------------------------------------------------------
(* Master valve: routing against the material schedule *)

Designed == op = "generateIrrigationDesign"

MasterValves == SelectSeq(ret.valves, LAMBDA v : v.type = "master")

MasterValveItems == SelectSeq(ret.materialSchedule, LAMBDA i : i.model = "200-PEB")

(* The mainline segments that leave the backflow preventer for the point   *)
(* 10 ft further along x                                                   *)
BackflowToMaster ==
  SelectSeq(ret.pipes,
            LAMBDA p : /\ p.type = "mainline"
                       /\ p.zoneId = Null
                       /\ p.startX = ret.backflow.x /\ p.startY = ret.backflow.y
                       /\ p.endX = RatAdd(ret.backflow.x, Whole(Ft(10)))
                       /\ p.endY = ret.backflow.y)

(* C16: in every returned design the valve list holds a master valve       *)
(* (exactly one, 10 ft past the backflow preventer on its y, with one      *)
(* mainline segment from the backflow preventer to it) if and only if the  *)
(* zones' GPM add up to more than 30, and if and only if the material      *)
(* schedule holds the master-valve line item with quantity 1.              *)
C16_MasterValveConsistent ==
  Designed =>
    /\ Len(MasterValves) > 0 <=> SumZoneGPM(ret.zones) > Tenths(300)
    /\ Len(MasterValves) > 0 <=> Len(MasterValveItems) > 0
    /\ Len(MasterValves) > 0 =>
         /\ Len(MasterValves) = 1
         /\ MasterValves[1].x = RatAdd(ret.backflow.x, Whole(Ft(10)))
         /\ MasterValves[1].y = ret.backflow.y
         /\ Len(BackflowToMaster) = 1
    /\ \A k \in DOMAIN MasterValveItems : MasterValveItems[k].quantity = 1
    /\ Len(MasterValveItems) <= 1

----------------------------------------------------------------------------
(* First-fit packing in insertion order *)

HeadsOfKind(headType) == SelectSeq(arg, LAMBDA h : h.type = headType)

ZonesOfKind(headType) == SelectSeq(ret.zones, LAMBDA z : z.headType = headType)

RECURSIVE ConcatMembers(_)
ConcatMembers(zs) == IF zs = <<>> THEN <<>> ELSE Head(zs).heads \o ConcatMembers(Tail(zs))

HeadWithId(id) == CHOOSE h \in Range(arg) : h.id = id

ZonedKinds == {arg[i].type : i \in DOMAIN arg} \ {"quick-coupler"}

----------------------------------------------------------------------------
(* Arcs of grid-placed heads *)

(* The bounding box placeHeadsInZone takes for a zone *)
BoxOfZone(zone) ==
  IF Len(zone.boundaryPoints) > 0
    THEN boundingBox(zone.boundaryPoints)
    ELSE [minX |-> zone.centerX - zone.widthFt \div 2,
          minY |-> zone.centerY - zone.lengthFt \div 2,
          maxX |-> zone.centerX + zone.widthFt \div 2,
          maxY |-> zone.centerY + zone.lengthFt \div 2,
          width |-> zone.widthFt, height |-> zone.lengthFt]

ZonesOfSite == arg.siteAnalysis.turfZones \o arg.siteAnalysis.bedZones
                 \o arg.siteAnalysis.narrowStrips

GridPlaced(h) == h.type \notin {"drip", "quick-coupler"}

Near(a, b) == Abs(a - b) < Ft(2)

NearVerticalEdge(h, bb) == Near(h.x, bb.minX) \/ Near(h.x, bb.maxX)

NearHorizontalEdge(h, bb) == Near(h.y, bb.minY) \/ Near(h.y, bb.maxY)

EdgesNear(h, bb) ==
  Cardinality({k \in 1..4 : <<Near(h.x, bb.minX), Near(h.x, bb.maxX),
                               Near(h.y, bb.minY), Near(h.y, bb.maxY)>>[k]})

(* C18: a grid-placed head has arc 90 if and only if it is within 2 ft of  *)
(* two perpendicular edges of its zone's bounding box, arc 180 if and only *)
(* if it is within 2 ft of exactly one edge, and arc 360 otherwise; a head *)
(* within 2 ft of two parallel edges only is not given the corner arc.     *)
(* Stated on the sites of a single zone, where the zone of a head is known.*)
C18_ArcByPerpendicularEdges ==
  (Placed /\ Len(ZonesOfSite) = 1) =>
    \A i \in DOMAIN ret :
      GridPlaced(ret[i]) =>
        /\ ret[i].arc = 90 <=> /\ NearVerticalEdge(ret[i], BoxOfZone(ZonesOfSite[1]))
                               /\ NearHorizontalEdge(ret[i], BoxOfZone(ZonesOfSite[1]))
        /\ ret[i].arc = 180 <=> EdgesNear(ret[i], BoxOfZone(ZonesOfSite[1])) = 1
        /\ ret[i].arc \in {90, 180, 360}

----------------------------------------------------------------------------
(* The rectangle of the candidate grid *)

CenterRectangle(zone) ==
  [minX |-> zone.centerX - zone.widthFt \div 2,
   minY |-> zone.centerY - zone.lengthFt \div 2,
   maxX |-> zone.centerX + zone.widthFt \div 2,
   maxY |-> zone.centerY + zone.lengthFt \div 2,
   width |-> zone.widthFt, height |-> zone.lengthFt]

(* The head model of the only zone of the site and the pattern of its grid *)
AthleticZone(zone) == IsAthletic /\ zone.type = "turf"

HeadSpecOfZone(zone) ==
  selectHeadForZone(zone.type, Max(zone.widthFt, zone.lengthFt), AthleticZone(zone))

CandidatesOver(bb, zone) ==
  generateGridPoints(bb.minX, bb.minY, bb.width, bb.height,
                     HeadSpecOfZone(zone).defaultRadiusFt,
                     HeadSpecOfZone(zone).defaultRadiusFt,
                     IF AthleticZone(zone) THEN "triangular" ELSE "square")

GridHeadPositions ==
  [i \in DOMAIN SelectSeq(ret, GridPlaced) |->
     [x |-> SelectSeq(ret, GridPlaced)[i].x, y |-> SelectSeq(ret, GridPlaced)[i].y]]

(* C19: the heads of a non-drip zone with fewer than 3 boundary points are *)
(* all the candidates of the grid over the rectangle of the zone's center, *)
(* width and length; with 3 or more boundary points they are the           *)
(* candidates of the grid over the boundary's bounding box that            *)
(* isPointInPolygon accepts.  Stated on the sites of a single zone.        *)
C19_GridRectangleByBoundary ==
  (Placed /\ Len(ZonesOfSite) = 1 /\ HeadSpecOfZone(ZonesOfSite[1]).category # "drip") =>
    GridHeadPositions =
      IF Len(ZonesOfSite[1].boundaryPoints) < 3
        THEN CandidatesOver(CenterRectangle(ZonesOfSite[1]), ZonesOfSite[1])
        ELSE SelectSeq(CandidatesOver(boundingBox(ZonesOfSite[1].boundaryPoints),
                                      ZonesOfSite[1]),
                       LAMBDA pt : isPointInPolygon(pt, ZonesOfSite[1].boundaryPoints))

----------------------------------------------------------------------------
(* Athletic-field rules *)

Rotor40 == HeadSpecById("i-40-04-ss")

(* The heads a zone gets from a head model and a grid pattern: model and   *)
(* position of each, in placement order                                    *)
HeadsFrom(zone, headSpec, pattern) ==
  IF headSpec.category = "drip"
    THEN << [model |-> headSpec.model, x |-> zone.centerX, y |-> zone.centerY] >>
    ELSE [i \in DOMAIN SelectSeq(generateGridPoints(BoxOfZone(zone).minX, BoxOfZone(zone).minY,
                                   BoxOfZone(zone).width, BoxOfZone(zone).height,
                                   headSpec.defaultRadiusFt, headSpec.defaultRadiusFt, pattern),
                                 LAMBDA pt : Len(zone.boundaryPoints) >= 3
                                               => isPointInPolygon(pt, zone.boundaryPoints)) |->
           [model |-> headSpec.model,
            x |-> SelectSeq(generateGridPoints(BoxOfZone(zone).minX, BoxOfZone(zone).minY,
                              BoxOfZone(zone).width, BoxOfZone(zone).height,
                              headSpec.defaultRadiusFt, headSpec.defaultRadiusFt, pattern),
                            LAMBDA pt : Len(zone.boundaryPoints) >= 3
                                          => isPointInPolygon(pt, zone.boundaryPoints))[i].x,
            y |-> SelectSeq(generateGridPoints(BoxOfZone(zone).minX, BoxOfZone(zone).minY,
                              BoxOfZone(zone).width, BoxOfZone(zone).height,
                              headSpec.defaultRadiusFt, headSpec.defaultRadiusFt, pattern),
                            LAMBDA pt : Len(zone.boundaryPoints) >= 3
                                          => isPointInPolygon(pt, zone.boundaryPoints))[i].y]]

(* The rules by kind and dominant dimension alone *)
OrdinaryHeadSpec(zone) ==
  IF zone.type = "narrow-strip" THEN HeadSpecById("he-van-15-sst")
  ELSE IF zone.type \in {"bed", "tree-ring", "planter"}
    THEN IF Max(zone.widthFt, zone.lengthFt) <= Ft(8) THEN HeadSpecById("he-van-15-sst")
         ELSE IF Max(zone.widthFt, zone.lengthFt) <= Ft(21) THEN HeadSpecById("mp3000")
         ELSE HeadSpecById("1804-sam-prs")
  ELSE IF Max(zone.widthFt, zone.lengthFt) > Ft(80) THEN Rotor40
  ELSE IF Max(zone.widthFt, zone.lengthFt) > Ft(50) THEN HeadSpecById("5004-pc-sam")
  ELSE IF Max(zone.widthFt, zone.lengthFt) > Ft(25) THEN HeadSpecById("pgp-adj")
  ELSE HeadSpecById("1804-sam-prs")

(* Athletic-field rules on every zone of an athletic field *)
RECURSIVE HeadsEveryKind(_)
HeadsEveryKind(zs) ==
  IF zs = <<>> THEN <<>>
  ELSE (IF IsAthletic THEN HeadsFrom(Head(zs), Rotor40, "triangular")
                      ELSE HeadsFrom(Head(zs), OrdinaryHeadSpec(Head(zs)), "square"))
       \o HeadsEveryKind(Tail(zs))

(* Athletic-field rules on the turf zones of an athletic field only *)
RECURSIVE HeadsTurfOnly(_)
HeadsTurfOnly(zs) ==
  IF zs = <<>> THEN <<>>
  ELSE (IF IsAthletic /\ Head(zs).type = "turf"
          THEN HeadsFrom(Head(zs), Rotor40, "triangular")
          ELSE HeadsFrom(Head(zs), OrdinaryHeadSpec(Head(zs)), "square"))
       \o HeadsTurfOnly(Tail(zs))

PlacedInZones ==
  [i \in DOMAIN SelectSeq(ret, LAMBDA h : h.type # "quick-coupler") |->
     [model |-> SelectSeq(ret, LAMBDA h : h.type # "quick-coupler")[i].model,
      x |-> SelectSeq(ret, LAMBDA h : h.type # "quick-coupler")[i].x,
      y |-> SelectSeq(ret, LAMBDA h : h.type # "quick-coupler")[i].y]]

----------------------------------------------------------------------------
(* Laterals *)

ZoneValve(zone) ==
  ret.valves[CHOOSE v \in DOMAIN ret.valves :
               ret.valves[v].type = "zone" /\ ret.valves[v].zoneId = zone.id]

ValvePoint(zone) == [x |-> ZoneValve(zone).x, y |-> ZoneValve(zone).y]

(* The lateral of a head: the segment of the head's zone that ends at it *)
LateralOf(h) ==
  ret.pipes[CHOOSE p \in DOMAIN ret.pipes :
              /\ ret.pipes[p].zoneId = h.zoneId
              /\ ret.pipes[p].endX = Whole(h.x)
              /\ ret.pipes[p].endY = Whole(h.y)]

StartOf(pipe) == [x |-> pipe.startX, y |-> pipe.startY]

(* Squared distance from head h to a point, on the scale of h's zone *)
SqFrom(h, point, zone) == SqDist(PointOf(h), point, Len(HeadsOfZone(zone)))

(* The places of the other heads of the zone that are strictly closer to   *)
(* h than the valve is                                                     *)
CloserThanValve(h, zone) ==
  {j \in DOMAIN HeadsOfZone(zone) :
     /\ HeadsOfZone(zone)[j].id # h.id
     /\ SqFrom(h, PointOf(HeadsOfZone(zone)[j]), zone) < SqFrom(h, ValvePoint(zone), zone)}

(* Of those, the first in list order among the closest *)
ClosestOther(h, zone) ==
  CHOOSE j \in CloserThanValve(h, zone) :
    \A m \in CloserThanValve(h, zone) :
      \/ SqFrom(h, PointOf(HeadsOfZone(zone)[j]), zone)
           < SqFrom(h, PointOf(HeadsOfZone(zone)[m]), zone)
      \/ /\ SqFrom(h, PointOf(HeadsOfZone(zone)[j]), zone)
             = SqFrom(h, PointOf(HeadsOfZone(zone)[m]), zone)
         /\ j <= m

(* C21: the lateral of a head starts at the zone valve unless another head *)
(* of the zone is strictly closer to the head than the valve is; then it   *)
(* starts at the closest other head of the zone, the first in list order   *)
(* on ties.  No lateral is longer than the distance from its head to the   *)
(* zone valve.                                                             *)
C21_LateralFromNearest ==
  Routed =>
    \A k \in ServedZones :
      \A i \in DOMAIN HeadsOfZone(arg.zones[k]) :
        /\ StartOf(LateralOf(HeadsOfZone(arg.zones[k])[i]))
             = IF CloserThanValve(HeadsOfZone(arg.zones[k])[i], arg.zones[k]) = {}
                 THEN ValvePoint(arg.zones[k])
                 ELSE PointOf(HeadsOfZone(arg.zones[k])[
                        ClosestOther(HeadsOfZone(arg.zones[k])[i], arg.zones[k])])
        /\ SqFrom(HeadsOfZone(arg.zones[k])[i],
                  StartOf(LateralOf(HeadsOfZone(arg.zones[k])[i])), arg.zones[k])
             <= SqFrom(HeadsOfZone(arg.zones[k])[i], ValvePoint(arg.zones[k]), arg.zones[k])

(* A head with two other heads of its zone equally close, both closer     *)
(* than the valve, and its lateral starting at the first of them; another  *)
(* head of the zone has a single closest head                              *)
C21_Witness ==
  /\ Routed
  /\ \E k \in ServedZones : \E i, n \in DOMAIN HeadsOfZone(arg.zones[k]) :
       /\ Cardinality(CloserThanValve(HeadsOfZone(arg.zones[k])[i], arg.zones[k])) = 2
       /\ \A j, m \in CloserThanValve(HeadsOfZone(arg.zones[k])[i], arg.zones[k]) :
            SqFrom(HeadsOfZone(arg.zones[k])[i], PointOf(HeadsOfZone(arg.zones[k])[j]),
                   arg.zones[k])
              = SqFrom(HeadsOfZone(arg.zones[k])[i], PointOf(HeadsOfZone(arg.zones[k])[m]),
                       arg.zones[k])
       /\ \E j \in CloserThanValve(HeadsOfZone(arg.zones[k])[i], arg.zones[k]) :
            /\ \A m \in CloserThanValve(HeadsOfZone(arg.zones[k])[i], arg.zones[k]) : j <= m
            /\ StartOf(LateralOf(HeadsOfZone(arg.zones[k])[i]))
                 = PointOf(HeadsOfZone(arg.zones[k])[j])
       /\ Cardinality(CloserThanValve(HeadsOfZone(arg.zones[k])[n], arg.zones[k])) = 1

----------------------------------------------------------------------------
(* Connectedness of the laterals and of the mainline *)

EndOf(pipe) == [x |-> pipe.endX, y |-> pipe.endY]

(* The points joined to a set of points by the segments of a set, the      *)
(* segments taken as undirected edges                                      *)
RECURSIVE ReachedFrom(_, _)
ReachedFrom(points, segments) ==
  IF \A p \in segments :
       (StartOf(ret.pipes[p]) \in points) <=> (EndOf(ret.pipes[p]) \in points)
    THEN points
    ELSE ReachedFrom(points
                       \cup {StartOf(ret.pipes[p]) : p \in {q \in segments :
                                                             EndOf(ret.pipes[q]) \in points}}
                       \cup {EndOf(ret.pipes[p]) : p \in {q \in segments :
                                                           StartOf(ret.pipes[q]) \in points}},
                     segments)

LateralsOfZone(zone) == PipesWhere(LAMBDA p : p.zoneId = zone.id)

(* C22: in every routed zone each head position is joined to the zone      *)
(* valve position by the zone's lateral (or drip-supply) segments, taken   *)
(* as undirected edges between their end points.                           *)
C22_HeadsJoinedToValve ==
  Routed =>
    \A k \in ServedZones :
      \A i \in DOMAIN HeadsOfZone(arg.zones[k]) :
        PointOf(HeadsOfZone(arg.zones[k])[i])
          \in ReachedFrom({ValvePoint(arg.zones[k])}, LateralsOfZone(arg.zones[k]))

----------------------------------------------------------------------------
(* Mainline size *)

MainlinesOfDesign == SelectSeq(ret.pipes, LAMBDA p : p.type = "mainline")

MainlineSizeFor(gpm) == IF gpm >= Tenths(400) THEN 200 ELSE 150

(* C23: every mainline segment of a design is schedule-40 PVC, 2 in wide   *)
(* when the zones' GPM add up to 40 or more and 1.5 in wide when they add  *)
(* up to less; the backflow preventer is at (poc.x + 5, poc.y) and has the *)
(* size of the mainline.                                                   *)
C23_MainlineSizeByGPM ==
  Designed =>
    /\ \A i \in DOMAIN MainlinesOfDesign :
         /\ MainlinesOfDesign[i].material = "sch40-pvc"
         /\ MainlinesOfDesign[i].diameterIn = MainlineSizeFor(SumZoneGPM(ret.zones))
    /\ ret.backflow.x = RatAdd(ret.poc.x, Whole(Ft(5)))
    /\ ret.backflow.y = ret.poc.y
    /\ ret.backflow.size = MainlineSizeFor(SumZoneGPM(ret.zones))


BackflowPoint == [x |-> ret.backflow.x, y |-> ret.backflow.y]

(* C24: every zone valve position is joined to the backflow position by    *)
(* the mainline segments, taken as undirected edges between their end      *)
(* points, with a master valve and without one.                            *)
C24_ValvesJoinedToBackflow ==
  Routed =>
    \A v \in ValvesWhere(LAMBDA w : w.type = "zone") :
      [x |-> ret.valves[v].x, y |-> ret.valves[v].y]
        \in ReachedFrom({BackflowPoint}, PipesWhere(LAMBDA p : p.type = "mainline"))

----------------------------------------------------------------------------
(* totalGPM of a zone against the flows of its heads *)

ExactSumOf(zone) == SumGPM(MembersOf(zone, arg))

(* C25 as stated: the totalGPM of every zone assignZones returns is the    *)
(* exact sum of the gpm of its member heads, without rounding, partial-arc *)
(* flows such as 0.55 or 0.375 GPM included.                               *)
C25_TotalIsExactSum ==
  Assigned => \A k \in DOMAIN ret.zones : ret.zones[k].totalGPM = ExactSumOf(ret.zones[k])

(* C25 amended: the totalGPM of every zone assignZones returns is the sum  *)
(* of the gpm of its member heads rounded to one decimal: a whole number   *)
(* of tenths of a GPM at most 0.05 GPM away from the exact sum, and the    *)
(* exact sum itself whenever that is a whole number of tenths.             *)
C25_TotalRoundedToTenths ==
  Assigned =>
    \A k \in DOMAIN ret.zones :
      /\ ret.zones[k].totalGPM % Tenths(1) = 0
      /\ ret.zones[k].totalGPM - ExactSumOf(ret.zones[k]) \in -2..2
      /\ ExactSumOf(ret.zones[k]) % Tenths(1) = 0
           => ret.zones[k].totalGPM = ExactSumOf(ret.zones[k])

(* A zone with a 0.55 GPM head and a zone of a 0.375 GPM head and another  *)
(* head, the totalGPM of both off their exact sums                         *)
C25_Witness ==
  /\ Assigned
  /\ \E k \in DOMAIN ret.zones :
       /\ \E h \in Range(MembersOf(ret.zones[k], arg)) : h.gpm = 22
       /\ ret.zones[k].totalGPM # ExactSumOf(ret.zones[k])
  /\ \E k \in DOMAIN ret.zones :
       /\ Len(ret.zones[k].heads) >= 2
       /\ \E h \in Range(MembersOf(ret.zones[k], arg)) : h.gpm = 15
       /\ ret.zones[k].totalGPM # ExactSumOf(ret.zones[k])

----------------------------------------------------------------------------
(* Wire line items *)

ItemsNamed(name) == SelectSeq(ret, LAMBDA it : it.item = name)

(* The total length of the mainline segments, in hundredths of a foot *)
MainlineRun == PipeLength(SelectSeq(arg.pipes, LAMBDA p : p.type = "mainline"))

OneWireItemEach == Len(ItemsNamed(WIRE.common.name)) = 1 /\ Len(ItemsNamed(WIRE.zone.name)) = 1

CommonWireFeet == ItemsNamed(WIRE.common.name)[1].quantity

ZoneWireFeet == ItemsNamed(WIRE.zone.name)[1].quantity

(* C26 as stated: the quantity of the zone-wire line item is the quantity  *)
(* of the common-wire line item times the design's zone count, the common  *)
(* wire being the total mainline length rounded up to whole feet, also     *)
(* when that length is not a whole number of feet.                         *)
C26_ZoneWireIsCommonTimesZones ==
  Counted =>
    /\ OneWireItemEach
    /\ CommonWireFeet = CeilDiv(MainlineRun, 100)
    /\ ZoneWireFeet = CommonWireFeet * arg.totalZones

(* C26 amended: the common wire is the total mainline length rounded up to *)
(* whole feet and the zone wire is that length times the zone count,       *)
(* rounded up to whole feet after the multiplication: the least whole      *)
(* number of feet not below length * zones.  It is the common wire times   *)
(* the zone count when the length is a whole number of feet and never more *)
(* than that.                                                              *)
C26_ZoneWireRoundedAfterMultiplying ==
  Counted =>
    /\ OneWireItemEach
    /\ 100 * (CommonWireFeet - 1) < MainlineRun /\ MainlineRun <= 100 * CommonWireFeet
    /\ 100 * (ZoneWireFeet - 1) < MainlineRun * arg.totalZones
    /\ MainlineRun * arg.totalZones <= 100 * ZoneWireFeet
    /\ ZoneWireFeet <= CommonWireFeet * arg.totalZones
    /\ MainlineRun % 100 = 0 => ZoneWireFeet = CommonWireFeet * arg.totalZones

(* Two zones or more on a mainline that is not a whole number of feet, the *)
(* zone wire shorter than the common wire times the zone count             *)
C26_Witness ==
  /\ Counted
  /\ arg.totalZones >= 2
  /\ MainlineRun % 100 # 0
  /\ ZoneWireFeet < CommonWireFeet * arg.totalZones

----------------------------------------------------------------------------
(* A rectangle by its corners and by its center, width and length *)

CornerRectangle(zone) ==
  /\ Len(zone.boundaryPoints) = 4
  /\ boundingBox(zone.boundaryPoints) = CenterRectangle(zone)
  /\ Range(zone.boundaryPoints) =
       {[x |-> px, y |-> py] : px \in {CenterRectangle(zone).minX, CenterRectangle(zone).maxX},
                               py \in {CenterRectangle(zone).minY, CenterRectangle(zone).maxY}}

PositionArcGPM(heads) ==
  [i \in DOMAIN heads |->
     [x |-> heads[i].x, y |-> heads[i].y, arc |-> heads[i].arc, gpm |-> heads[i].gpm]]

WithoutBoundary(zone) == [zone EXCEPT !.boundaryPoints = <<>>]

(* C27: a rectangular zone gets the same heads (positions, arcs, GPM) from *)
(* its four corner boundary points as from an empty boundary list with the *)
(* matching center, width and length, the candidates on the maximum-x and  *)
(* maximum-y edges included.  Stated on the sites of a single zone.        *)
C27_RectangleDescriptionsAgree ==
  (Placed /\ Len(ZonesOfSite) = 1 /\ CornerRectangle(ZonesOfSite[1])) =>
    PositionArcGPM(SelectSeq(ret, GridPlaced)) =
      PositionArcGPM(placeHeadsInZone(WithoutBoundary(ZonesOfSite[1]),
                                      AthleticZone(ZonesOfSite[1]), 0).heads)

----------------------------------------------------------------------------
(* The capacity limit of assignZones *)

LateralHeadTypes == {"rotor", "spray", "rotary-nozzle", "drip", "strip"}

(* What the pipe catalog rates the lateral of a head kind at *)
CatalogMaxGPM(headType) ==
  (CHOOSE p \in Range(PIPES) :
     p.type = "lateral" /\ p.sizeIn = getLateralSizeIn(headType)).maxGPM

----------------------------------------------------------------------------
(* Drip *)

ZoneTypes == {"turf", "bed", "narrow-strip", "tree-ring", "planter"}

WholeFeet == {Ft(n) : n \in 0..200}

----------------------------------------------------------------------------
(* Zone valves of a design *)

DesignMembers(zone) == MembersOf(zone, ret.heads)

(* C30: in every design of generateIrrigationDesign every zone valve is    *)
(* the 1 in PEB-100: no placed head draws more than 4.2 GPM, no zone adds  *)
(* up to more than the 15 GPM of the valve threshold, and neither a 1.5 in *)
(* valve nor the PEB-150 line item appears.                                *)
C30_EveryZoneValveOneInch ==
  Designed =>
    /\ \A i \in DOMAIN ret.heads : ret.heads[i].gpm <= Tenths(42)
    /\ \A k \in DOMAIN ret.zones :
         /\ SumGPM(DesignMembers(ret.zones[k])) <= Tenths(150)
         /\ ret.zones[k].totalGPM <= Tenths(150)
         /\ ret.zones[k].valveModel = ValveById("peb-100").model
         /\ ret.zones[k].valveSize = 100
    /\ \A v \in ValvesWhere(LAMBDA w : w.type = "zone") :
         ret.valves[v].model = ValveById("peb-100").model /\ ret.valves[v].size = 100
    /\ \A i \in DOMAIN ret.materialSchedule :
         ret.materialSchedule[i].model # ValveById("peb-150").model

(* A design with a 4.2 GPM head and two zones of one kind, the first       *)
(* closed within 4.2 GPM of the threshold                                  *)
C30_Witness ==
  /\ Designed
  /\ \E i \in DOMAIN ret.heads : ret.heads[i].gpm = Tenths(42)
  /\ \E k \in DOMAIN ret.zones :
       /\ k < Len(ret.zones)
       /\ ret.zones[k + 1].headType = ret.zones[k].headType
       /\ SumGPM(DesignMembers(ret.zones[k])) > Tenths(150) - Tenths(42)
  /\ \E i \in DOMAIN ret.materialSchedule :
       ret.materialSchedule[i].model = ValveById("peb-100").model

====
